---- MODULE Spec2Model ----
(***************************************************************************)
(* Turn-processing pipeline of the Mana voice bot (server/main.py) with    *)
(* its classifiers (server/safety.py, server/language_router.py,           *)
(* server/emotions.py) and the in-memory session store                     *)
(* (server/conversation.py).                                               *)
(*                                                                         *)
(* Texts are TLA+ strings, which are ASCII.  Characters outside ASCII in   *)
(* the source's literals are written with ASCII stand-ins: "-" for the em  *)
(* dash, "*" for the bullet, "->" for the arrow.  The characters "@" and   *)
(* "#" stand for two letters of the Devanagari block U+0900..U+097F.       *)
(***************************************************************************)
EXTENDS Integers, Sequences, FiniteSets, TLC

(***************************************************************************)
(* Python str primitives used by the classifiers.                          *)
(***************************************************************************)
Char(s, i) == SubSeq(s, i, i)

Rest(s) == SubSeq(s, 2, Len(s))

UPPER == "ABCDEFGHIJKLMNOPQRSTUVWXYZ"

LOWER == "abcdefghijklmnopqrstuvwxyz"

DIGITS == "0123456789"

WHITESPACE == {" ", "\t", "\n", "\r"}

CharsOf(s) == {Char(s, i) : i \in 1..Len(s)}

UpperChars == CharsOf(UPPER)

\* the lowercase letter of each uppercase letter
LowerOf ==
    [c \in UpperChars |->
        Char(LOWER, CHOOSE i \in 1..Len(UPPER) : Char(UPPER, i) = c)]

LowerChar(c) == IF c \in UpperChars THEN LowerOf[c] ELSE c

RECURSIVE lower(_)
lower(s) == IF s = "" THEN "" ELSE LowerChar(Char(s, 1)) \o lower(Rest(s))

RECURSIVE lstrip(_)
lstrip(s) ==
    IF s # "" /\ Char(s, 1) \in WHITESPACE THEN lstrip(Rest(s)) ELSE s

RECURSIVE rstrip(_)
rstrip(s) ==
    IF s # "" /\ Char(s, Len(s)) \in WHITESPACE
    THEN rstrip(SubSeq(s, 1, Len(s) - 1))
    ELSE s

strip(s) == rstrip(lstrip(s))

\* re.sub(r'\s+', ' ', s)
RECURSIVE collapse_ws(_)
collapse_ws(s) ==
    IF s = "" THEN ""
    ELSE IF Char(s, 1) \in WHITESPACE THEN " " \o collapse_ws(lstrip(s))
    ELSE Char(s, 1) \o collapse_ws(Rest(s))

\* k in s
Contains(k, s) ==
    \E i \in 1..(Len(s) - Len(k) + 1) : SubSeq(s, i, i + Len(k) - 1) = k

\* Optional[...] values: None is the empty tuple, a present value x is <<x>>.
None == << >>

Some(x) == << x >>

(***************************************************************************)
(* server/models.py                                                        *)
(***************************************************************************)
EmotionTag == {"anxious", "sad", "angry", "frustrated", "neutral", "positive"}

SafetyLevel == {"safe", "warning", "crisis"}

Language == {"en", "hi", "hi-en"}

(***************************************************************************)
(* server/config.py                                                        *)
(***************************************************************************)
HELPLINES ==
    [name \in {"iCall", "Vandrevala Foundation", "iMind"} |->
        CASE name = "iCall" -> "9152987821"
          [] name = "Vandrevala Foundation" -> "1860-2662-345"
          [] name = "iMind" -> "040-39246955"]

(***************************************************************************)
(* server/safety.py                                                        *)
(***************************************************************************)
CRISIS_KEYWORDS_EN ==
    << "kill myself", "want to die", "end my life", "end it all", "suicide",
       "suicidal", "self harm", "self-harm", "hurt myself", "hurting myself",
       "cut myself", "cutting myself", "no reason to live", "better off dead",
       "don't want to be alive", "can't go on", "nothing left to live for",
       "wish i was dead", "wish i were dead", "want to disappear",
       "not worth living", "wrote a note", "written a note", "saying goodbye",
       "giving away my things", "have a plan", "know how to end it",
       "wouldn't mind dying", "hope i don't wake up", "if i didn't exist",
       "world without me" >>

CRISIS_KEYWORDS_HI ==
    << "khud ko hurt karna", "khud ko maarna", "khudkushi", "aatmhatya",
       "suicide karna", "mar jaana chahta", "mar jaana chahti",
       "mar jana chahta", "mar jana chahti", "jeena nahi chahta",
       "jeena nahi chahti", "jina nahi chahta", "jina nahi chahti",
       "sab khatam karna hai", "sab khatam kar dena", "koi faayda nahi",
       "koi fayda nahi", "jeene ka mann nahi", "jine ka mann nahi",
       "zindagi se tang", "zindagi se thak gaya", "zindagi se thak gayi",
       "plan banaya hai", "soch liya hai", "faisla kar liya",
       "life end karna", "khud ko khatam", "apne aap ko hurt",
       "apni life khatam", "mujhe nahi jeena", "main nahi reh sakta",
       "main nahi reh sakti" >>

WARNING_KEYWORDS_EN ==
    << "don't want to be here", "can't take it anymore",
       "so done with everything", "tired of living", "nothing matters",
       "what's the point", "nobody cares", "no one would miss me",
       "burden to everyone", "done with life", "give up on everything" >>

WARNING_KEYWORDS_HI ==
    << "thak gaya hoon sab se", "thak gayi hoon sab se", "kuch nahi hoga",
       "kisi ko fark nahi padta", "sab bekar hai", "main bojh hoon",
       "haar maan li", "haar man li", "koi matlab nahi",
       "khatam ho gaya sab" >>

HelplineLines ==
    "* iCall: " \o HELPLINES["iCall"] \o "\n"
    \o "* Vandrevala Foundation: " \o HELPLINES["Vandrevala Foundation"] \o "\n"
    \o "* iMind: " \o HELPLINES["iMind"] \o "\n\n"

CRISIS_RESPONSE_EN ==
    "What you're feeling matters, and I'm really glad you shared that with me. "
    \o "You don't have to go through this alone. I want to make sure you get the right support. "
    \o "Please reach out to one of these helplines - they're available to talk right now:\n\n"
    \o HelplineLines
    \o "I'll stay here with you. Will you reach out to one of those numbers?"

CRISIS_RESPONSE_HI ==
    "Jo aap feel kar rahe hain woh mayne rakhta hai. Aapne bataya, yeh bahut zaroori tha. "
    \o "Aapko akele se nahi guzarna hai. Main chahta hoon ki aapko sahi madad mile. "
    \o "Please in helplines pe call karein - yeh abhi available hain:\n\n"
    \o HelplineLines
    \o "Main aapke saath hoon. Kya aap in mein se kisi number pe call karenge?"

WARNING_RESPONSE_EN ==
    "I hear you, and what you're going through sounds really hard. "
    \o "I want you to know - if things ever feel too heavy, there are people who can help. "
    \o "You can reach iCall at " \o HELPLINES["iCall"] \o " or "
    \o "Vandrevala Foundation at " \o HELPLINES["Vandrevala Foundation"] \o " anytime. "
    \o "I'm here too. Would you like to keep talking?"

WARNING_RESPONSE_HI ==
    "Main sun raha hoon, aur yeh sach mein bahut mushkil lagta hai. "
    \o "Agar kabhi cheezein bahut bhaari lagein, toh madad ke liye log hain. "
    \o "iCall pe call kar sakte hain: " \o HELPLINES["iCall"] \o " ya "
    \o "Vandrevala Foundation: " \o HELPLINES["Vandrevala Foundation"] \o ". "
    \o "Main bhi yahan hoon. Kya baat karna chahenge?"

normalize_text(text) == collapse_ws(strip(lower(text)))

check_keywords(text, keywords) ==
    LET normalized == normalize_text(text)
    IN  SelectSeq(keywords, LAMBDA keyword : Contains(lower(keyword), normalized))

\* SafetyResult whose helplines field defaults to the directory
SafetyResult_HelplinesByDefault(level, matched_keywords, crisis_response, helplines) ==
    [level |-> level, matched_keywords |-> matched_keywords,
     crisis_response |-> crisis_response, helplines |-> Some(HELPLINES)]

SafetyResult(level, matched_keywords, crisis_response, helplines) ==
    [level |-> level, matched_keywords |-> matched_keywords,
     crisis_response |-> crisis_response, helplines |-> helplines]

\* check_safety testing the warning lists before the crisis lists
check_safety_WarningFirst(text, language) ==
    IF text = "" \/ strip(text) = ""
    THEN SafetyResult("safe", << >>, None, None)
    ELSE
    LET crisis_matches_en == check_keywords(text, CRISIS_KEYWORDS_EN)
        crisis_matches_hi == check_keywords(text, CRISIS_KEYWORDS_HI)
        all_crisis == crisis_matches_en \o crisis_matches_hi
        warning_matches_en == check_keywords(text, WARNING_KEYWORDS_EN)
        warning_matches_hi == check_keywords(text, WARNING_KEYWORDS_HI)
        all_warnings == warning_matches_en \o warning_matches_hi
    IN  IF all_warnings # << >>
        THEN SafetyResult("warning", all_warnings,
                 Some(IF language \in {"hi", "hi-en"} \/ warning_matches_hi # << >>
                      THEN WARNING_RESPONSE_HI ELSE WARNING_RESPONSE_EN),
                 Some(HELPLINES))
        ELSE IF all_crisis # << >>
        THEN SafetyResult("crisis", all_crisis,
                 Some(IF language \in {"hi", "hi-en"} \/ crisis_matches_hi # << >>
                      THEN CRISIS_RESPONSE_HI ELSE CRISIS_RESPONSE_EN),
                 Some(HELPLINES))
        ELSE SafetyResult("safe", << >>, None, None)

\* check_safety choosing the script by the declared language alone
check_safety_ScriptByLanguage(text, language) ==
    IF text = "" \/ strip(text) = ""
    THEN SafetyResult("safe", << >>, None, None)
    ELSE
    LET all_crisis == check_keywords(text, CRISIS_KEYWORDS_EN)
                          \o check_keywords(text, CRISIS_KEYWORDS_HI)
        all_warnings == check_keywords(text, WARNING_KEYWORDS_EN)
                            \o check_keywords(text, WARNING_KEYWORDS_HI)
    IN  IF all_crisis # << >>
        THEN SafetyResult("crisis", all_crisis,
                 Some(IF language \in {"hi", "hi-en"}
                      THEN CRISIS_RESPONSE_HI ELSE CRISIS_RESPONSE_EN),
                 Some(HELPLINES))
        ELSE IF all_warnings # << >>
        THEN SafetyResult("warning", all_warnings,
                 Some(IF language \in {"hi", "hi-en"}
                      THEN WARNING_RESPONSE_HI ELSE WARNING_RESPONSE_EN),
                 Some(HELPLINES))
        ELSE SafetyResult("safe", << >>, None, None)

\* check_safety scanning only the lists of the declared language
check_safety_DeclaredListsOnly(text, language) ==
    IF text = "" \/ strip(text) = ""
    THEN SafetyResult("safe", << >>, None, None)
    ELSE
    LET hindi == language \in {"hi", "hi-en"}
        all_crisis == check_keywords(text, IF hindi THEN CRISIS_KEYWORDS_HI
                                                     ELSE CRISIS_KEYWORDS_EN)
        all_warnings == check_keywords(text, IF hindi THEN WARNING_KEYWORDS_HI
                                                       ELSE WARNING_KEYWORDS_EN)
    IN  IF all_crisis # << >>
        THEN SafetyResult("crisis", all_crisis,
                 Some(IF hindi THEN CRISIS_RESPONSE_HI ELSE CRISIS_RESPONSE_EN),
                 Some(HELPLINES))
        ELSE IF all_warnings # << >>
        THEN SafetyResult("warning", all_warnings,
                 Some(IF hindi THEN WARNING_RESPONSE_HI ELSE WARNING_RESPONSE_EN),
                 Some(HELPLINES))
        ELSE SafetyResult("safe", << >>, None, None)

check_safety(text, language) ==
    IF text = "" \/ strip(text) = ""
    THEN SafetyResult("safe", << >>, None, None)
    ELSE
    LET crisis_matches_en == check_keywords(text, CRISIS_KEYWORDS_EN)
        crisis_matches_hi == check_keywords(text, CRISIS_KEYWORDS_HI)
        all_crisis == crisis_matches_en \o crisis_matches_hi
        warning_matches_en == check_keywords(text, WARNING_KEYWORDS_EN)
        warning_matches_hi == check_keywords(text, WARNING_KEYWORDS_HI)
        all_warnings == warning_matches_en \o warning_matches_hi
    IN  IF all_crisis # << >>
        THEN SafetyResult("crisis", all_crisis,
                 Some(IF language \in {"hi", "hi-en"} \/ crisis_matches_hi # << >>
                      THEN CRISIS_RESPONSE_HI ELSE CRISIS_RESPONSE_EN),
                 Some(HELPLINES))
        ELSE IF all_warnings # << >>
        THEN SafetyResult("warning", all_warnings,
                 Some(IF language \in {"hi", "hi-en"} \/ warning_matches_hi # << >>
                      THEN WARNING_RESPONSE_HI ELSE WARNING_RESPONSE_EN),
                 Some(HELPLINES))
        ELSE SafetyResult("safe", << >>, None, None)

(***************************************************************************)
(* server/emotions.py                                                      *)
(***************************************************************************)
anxious_words ==
    << "worried", "anxious", "nervous", "panic", "overthinking",
       "can't stop thinking", "scared", "afraid", "tension", "dar", "ghabra",
       "chinta", "soch", "thinking too much", "bohot tension", "dar lag raha",
       "ghabrahat" >>

sad_words ==
    << "sad", "lonely", "alone", "crying", "depressed", "hopeless", "empty",
       "lost", "miss", "grief", "dukhi", "udaas", "akela", "rona", "aansu",
       "kuch nahi hoga", "bohot bura", "mann nahi", "tanha" >>

angry_words ==
    << "angry", "furious", "hate", "sick of", "fed up", "pissed", "gussa",
       "nafrat", "tang aa gaya", "bardasht nahi", "chid" >>

frustrated_words ==
    << "stuck", "overwhelmed", "can't do this", "nothing works", "frustrated",
       "burnout", "exhausted", "giving up", "thak gaya", "kuch nahi ho raha",
       "haar", "majboor", "pareshan" >>

positive_words ==
    << "better", "good", "happy", "hopeful", "grateful", "thank", "relieved",
       "calm", "peaceful", "achha", "behtar", "khushi", "shukriya", "theek",
       "achha lag raha" >>

\* for word in words: if word in text_lower
AnyWordIn(words, text_lower) ==
    \E i \in 1..Len(words) : Contains(words[i], text_lower)

\* detect_emotion_sync looking for the sad words before the anxious ones
detect_emotion_sync_SadFirst(text) ==
    IF text = "" THEN "neutral"
    ELSE
    LET text_lower == lower(text)
    IN  IF AnyWordIn(sad_words, text_lower) THEN "sad"
        ELSE IF AnyWordIn(anxious_words, text_lower) THEN "anxious"
        ELSE IF AnyWordIn(angry_words, text_lower) THEN "angry"
        ELSE IF AnyWordIn(frustrated_words, text_lower) THEN "frustrated"
        ELSE IF AnyWordIn(positive_words, text_lower) THEN "positive"
        ELSE "neutral"

detect_emotion_sync(text) ==
    IF text = "" THEN "neutral"
    ELSE
    LET text_lower == lower(text)
    IN  IF AnyWordIn(anxious_words, text_lower) THEN "anxious"
        ELSE IF AnyWordIn(sad_words, text_lower) THEN "sad"
        ELSE IF AnyWordIn(angry_words, text_lower) THEN "angry"
        ELSE IF AnyWordIn(frustrated_words, text_lower) THEN "frustrated"
        ELSE IF AnyWordIn(positive_words, text_lower) THEN "positive"
        ELSE "neutral"

(***************************************************************************)
(* server/language_router.py                                               *)
(***************************************************************************)
\* Stand-ins for letters of the block U+0900..U+097F.
DEVANAGARI == {"@", "#"}

HINDI_ROMANIZED_WORDS ==
    { "aana", "aao", "aap", "aapka", "aapki", "aata", "aati", "aaya", "aayi",
      "ab", "abhi", "achha", "achhi", "aur", "baat", "bahot", "bahut", "bhi",
      "bilkul", "bohot", "bol", "bolna", "bolo", "bolta", "bolti", "bura",
      "buri", "chahiye", "chahta", "chahti", "dekh", "dekhna", "dekho",
      "dekhta", "dekhti", "dil", "dost", "duniya", "gaya", "gayi", "ghar",
      "hai", "hain", "hamesha", "ho", "hona", "hoon", "hota", "hoti", "hua",
      "hui", "humara", "isko", "jaana", "jab", "jagah", "jao", "jata", "jati",
      "jhooth", "kaam", "kabhi", "kaisa", "kaise", "kaisi", "kam", "kar",
      "karna", "karta", "karte", "karti", "kya", "kyu", "kyun", "kyunki",
      "laga", "lagi", "lagta", "lagti", "lekin", "log", "main", "maloom",
      "mann", "matlab", "mein", "mera", "mere", "meri", "mila", "mili",
      "milta", "milti", "nahi", "nahin", "nhi", "paisa", "par", "pata",
      "phir", "please", "raha", "rahi", "reh", "rehna", "rehta", "rehti",
      "sach", "sakta", "sakti", "samajhna", "samajhta", "samajhti", "samjho",
      "sawaal", "sun", "sunna", "suno", "sunta", "sunti", "tab", "theek",
      "thoda", "time", "toh", "tum", "tumhara", "tumhari", "usko", "wala",
      "wali", "woh", "yaar", "ye", "yeh", "zindagi", "zyada" }

\* Each pattern r'\b(a1|a2|..)\b.*\b(b1|b2|..)\b' as the pair of its two
\* alternations.
HINGLISH_PATTERNS ==
    << << {"yaar", "bhai", "dude"}, {"is", "am", "was", "the", "but", "and"} >>,
       << {"is", "am", "was", "the", "but", "and"}, {"yaar", "bhai", "hai", "nahi"} >>,
       << {"feel", "stressed", "anxiety", "work"}, {"hai", "hoon", "raha", "rahi"} >>,
       << {"bohot", "bahut", "kuch"}, {"stressed", "tired", "done", "busy"} >> >>

\* \w of the re module
WordChars ==
    CharsOf(LOWER) \cup CharsOf(UPPER) \cup CharsOf(DIGITS) \cup {"_"}
        \cup DEVANAGARI

WordChar(c) == c \in WordChars

\* \bw\b matches at position i of t
WordAt(t, i, w) ==
    /\ i + Len(w) - 1 <= Len(t)
    /\ SubSeq(t, i, i + Len(w) - 1) = w
    /\ (i = 1 \/ ~WordChar(Char(t, i - 1)))
    /\ (i + Len(w) - 1 = Len(t) \/ ~WordChar(Char(t, i + Len(w))))

\* re.search(r'\b(A)\b.*\b(B)\b', t): "." matches any character but "\n"
re_search(pattern, t) ==
    \E i \in 1..Len(t) : \E a \in pattern[1] :
        /\ WordAt(t, i, a)
        /\ \E j \in (i + Len(a))..Len(t) : \E b \in pattern[2] :
              /\ WordAt(t, j, b)
              /\ \A k \in (i + Len(a))..(j - 1) : Char(t, k) # "\n"

\* str.split()
RECURSIVE split(_)
split(s) ==
    LET t == lstrip(s)
        n == IF \E i \in 1..Len(t) : Char(t, i) \in WHITESPACE
             THEN (CHOOSE i \in 1..Len(t) :
                      /\ Char(t, i) \in WHITESPACE
                      /\ \A j \in 1..(i - 1) : Char(t, j) \notin WHITESPACE) - 1
             ELSE Len(t)
    IN  IF t = "" THEN << >>
        ELSE << SubSeq(t, 1, n) >> \o split(SubSeq(t, n + 1, Len(t)))

\* str.strip(chars)
RECURSIVE strip_chars(_, _)
strip_chars(w, chars) ==
    IF w # "" /\ Char(w, 1) \in chars THEN strip_chars(Rest(w), chars)
    ELSE IF w # "" /\ Char(w, Len(w)) \in chars
    THEN strip_chars(SubSeq(w, 1, Len(w) - 1), chars)
    ELSE w

has_devanagari(text) == \E i \in 1..Len(text) : Char(text, i) \in DEVANAGARI

count_hindi_words(text) ==
    LET words == split(lower(text))
    IN  Cardinality({i \in 1..Len(words) :
            strip_chars(words[i], {".", ",", "!", "?", ";", ":", "'", "\""})
                \in HINDI_ROMANIZED_WORDS})

is_hinglish(text) ==
    LET text_lower == lower(text)
    IN  \E p \in 1..Len(HINGLISH_PATTERNS) :
            re_search(HINGLISH_PATTERNS[p], text_lower)

\* the text rules with the code-mixing patterns tried before the script
detect_language_by_text_MixingFirst(text) ==
    IF text = "" \/ strip(text) = "" THEN "en"
    ELSE IF is_hinglish(text) THEN "hi-en"
    ELSE IF has_devanagari(text) THEN "hi"
    ELSE
    LET total_words == Len(split(lower(text)))
        hindi_count == count_hindi_words(text)
    IN  IF total_words > 0 /\ 2 * hindi_count > total_words THEN "hi"
        ELSE IF total_words > 0 /\ 5 * hindi_count > total_words THEN "hi-en"
        ELSE "en"

\* the ratio rule giving Hindi from one half upwards
detect_language_by_text_HalfIsHindi(text) ==
    IF text = "" \/ strip(text) = "" THEN "en"
    ELSE IF has_devanagari(text) THEN "hi"
    ELSE IF is_hinglish(text) THEN "hi-en"
    ELSE
    LET total_words == Len(split(lower(text)))
        hindi_count == count_hindi_words(text)
    IN  IF total_words > 0 /\ 2 * hindi_count >= total_words THEN "hi"
        ELSE IF total_words > 0 /\ 5 * hindi_count > total_words THEN "hi-en"
        ELSE "en"

\* hindi_count / total_words compared with 0.5 and 0.2, in integers
detect_language_by_text(text) ==
    IF text = "" \/ strip(text) = "" THEN "en"
    ELSE IF has_devanagari(text) THEN "hi"
    ELSE IF is_hinglish(text) THEN "hi-en"
    ELSE
    LET total_words == Len(split(lower(text)))
        hindi_count == count_hindi_words(text)
    IN  IF total_words > 0 /\ 2 * hindi_count > total_words THEN "hi"
        ELSE IF total_words > 0 /\ 5 * hindi_count > total_words THEN "hi-en"
        ELSE "en"

\* detect_language letting the script of the text outrank the tag
detect_language_ScriptFirst(text, stt_tag) ==
    LET stt_tag_lower == strip(lower(stt_tag))
    IN  IF has_devanagari(text) THEN "hi"
        ELSE IF stt_tag # "" /\ stt_tag_lower \in {"en", "english"} THEN "en"
        ELSE IF stt_tag # "" /\ stt_tag_lower \in {"hi", "hindi"} THEN "hi"
        ELSE IF stt_tag # "" /\ stt_tag_lower \in {"hi-en", "hinglish", "hi-eng"}
        THEN "hi-en"
        ELSE detect_language_by_text(text)

detect_language(text, stt_tag) ==
    LET stt_tag_lower == strip(lower(stt_tag))
    IN  IF stt_tag # "" /\ stt_tag_lower \in {"en", "english"} THEN "en"
        ELSE IF stt_tag # "" /\ stt_tag_lower \in {"hi", "hindi"} THEN "hi"
        ELSE IF stt_tag # "" /\ stt_tag_lower \in {"hi-en", "hinglish", "hi-eng"}
        THEN "hi-en"
        ELSE detect_language_by_text(text)

\* get_tts_pipeline sending Hinglish to the OpenAI voice as well
get_tts_pipeline_HindiOnly(language) ==
    IF language \in {"en", "hi-en"} THEN "openai" ELSE "sarvam"

get_tts_pipeline(language) ==
    IF language = "en" THEN "openai" ELSE "sarvam"

(***************************************************************************)
(* server/tts.py.  Audio is a string, "" for b"".  The outcome of a        *)
(* backend request is what the provider did: raised tells whether the      *)
(* request raised, the other fields are those of its response.             *)
(***************************************************************************)
\* base64.b64decode on the payloads the model uses
b64decode(payload) ==
    IF payload = "d2F2" THEN "wav"
    ELSE IF payload = "bXAz" THEN "mp3"
    ELSE ""

\* synthesize_openai(text), given the outcome of audio.speech.create
synthesize_openai(outcome) ==
    IF outcome.raised THEN "" ELSE outcome.content

\* synthesize_sarvam(text), given the outcome of the POST
synthesize_sarvam(outcome) ==
    IF outcome.raised THEN ""
    ELSE IF outcome.status_code = 200
         THEN IF outcome.audios # << >>
              THEN b64decode(outcome.audios[1])
              ELSE ""
         ELSE ""

\* the backend synthesize_auto falls back to
OtherPipeline(pipeline) == IF pipeline = "openai" THEN "sarvam" ELSE "openai"

get_language_instruction(language) ==
    IF language = "en"
    THEN "Respond in English. Use warm, conversational English with natural contractions."
    ELSE IF language = "hi"
    THEN "Respond in Hindi (Romanized/Hinglish script). "
         \o "Use natural Hindi as spoken by young adults in India. "
         \o "Example: 'Main samajh sakta hoon, yeh bohot mushkil hai.'"
    ELSE "Respond in Hinglish - a natural mix of Hindi and English as spoken by young Indians. "
         \o "Mirror the user's mixing style. "
         \o "Example: 'Yaar I understand, yeh sach mein bohot heavy hai.'"

(***************************************************************************)
(* server/prompts.py                                                       *)
(***************************************************************************)
BOT_NAME == "Mana"

\* The master prompt is a fixed text of some ninety lines; the pipeline only
\* concatenates to it.
SYSTEM_PROMPT ==
    "You are " \o BOT_NAME \o ", a warm, empathetic voice companion [...]"

OPENING_SCRIPTS ==
    [language \in Language |->
        CASE language = "en" ->
                "Hi there! I'm " \o BOT_NAME
                \o " - your friendly companion for a moment of calm. "
                \o "I'm here to listen, not judge. Is it okay if we talk for a bit?"
          [] language = "hi" ->
                "Namaste! Main " \o BOT_NAME
                \o " hoon - aapki baat sunne ke liye yahan hoon. "
                \o "Koi judgment nahi, bas sunna. Kya hum thodi der baat kar sakte hain?"
          [] language = "hi-en" ->
                "Hey! Main " \o BOT_NAME
                \o " hoon. I'm here to listen - koi judgment nahi. "
                \o "Kya aap thoda share karna chahenge?"]

CRISIS_OVERRIDE_EN ==
    "What you're feeling matters, and I'm really glad you said something. "
    \o "You don't have to go through this alone. "
    \o "Please reach out to one of these helplines - they're available right now: "
    \o "iCall: " \o HELPLINES["iCall"] \o ", "
    \o "Vandrevala Foundation: " \o HELPLINES["Vandrevala Foundation"] \o ", "
    \o "iMind: " \o HELPLINES["iMind"] \o ". "
    \o "I'll stay here with you. Will you reach out to one of those numbers?"

CRISIS_OVERRIDE_HI ==
    "Jo aap feel kar rahe hain woh mayne rakhta hai. Aapne bataya, yeh bahut zaroori tha. "
    \o "Aapko akele se nahi guzarna hai. "
    \o "Please in helplines pe call karein - yeh abhi available hain: "
    \o "iCall: " \o HELPLINES["iCall"] \o ", "
    \o "Vandrevala Foundation: " \o HELPLINES["Vandrevala Foundation"] \o ", "
    \o "iMind: " \o HELPLINES["iMind"] \o ". "
    \o "Main aapke saath hoon. Kya aap in mein se kisi number pe call karenge?"

get_system_prompt(language, context_summary) ==
    SYSTEM_PROMPT
    \o (IF language \in {"hi", "hi-en"}
        THEN "\n\n# CURRENT LANGUAGE INSTRUCTION\n"
             \o "The user is speaking in Hindi/Hinglish. "
             \o "Respond in the same language style they are using. "
             \o "Use natural Romanized Hindi or Hinglish as appropriate."
        ELSE "\n\n# CURRENT LANGUAGE INSTRUCTION\n"
             \o "The user is speaking in English. "
             \o "Respond in warm, conversational English with natural contractions.")
    \o (IF context_summary # ""
        THEN "\n\n# SESSION CONTEXT\n" \o context_summary
        ELSE "")

get_opening_script(language) ==
    IF language \in DOMAIN OPENING_SCRIPTS
    THEN OPENING_SCRIPTS[language] ELSE OPENING_SCRIPTS["en"]

get_crisis_override(language) ==
    IF language \in {"hi", "hi-en"} THEN CRISIS_OVERRIDE_HI ELSE CRISIS_OVERRIDE_EN

(***************************************************************************)
(* server/conversation.py: the session store.  A store value S is the      *)
(* dict _sessions: a function from the session IDs present to their        *)
(* SessionState.  Every operation is an operator from the store before to  *)
(* the store after; t is datetime.now() and uuid the value uuid.uuid4()    *)
(* would return.                                                           *)
(***************************************************************************)
ConversationTurn(role, content, emotion, language, t) ==
    [role |-> role, content |-> content, emotion |-> emotion,
     language |-> language, timestamp |-> t]

SessionState(sid, t) ==
    [session_id |-> sid, turns |-> << >>, language_preference |-> "en",
     current_emotion |-> "neutral", emotion_trajectory |-> << >>,
     active_topics |-> << >>, is_crisis |-> FALSE,
     created_at |-> t, last_activity |-> t]

\* sid = session_id or str(uuid.uuid4())
create_session_id(session_id, uuid) ==
    IF session_id # "" THEN session_id ELSE uuid

create_session(S, session_id, uuid, t) ==
    LET sid == create_session_id(session_id, uuid)
    IN  [k \in DOMAIN S \cup {sid} |->
            IF k = sid THEN SessionState(sid, t) ELSE S[k]]

get_session(S, session_id) ==
    IF session_id \in DOMAIN S THEN Some(S[session_id]) ELSE None

\* the ID of the session get_or_create_session returns
get_or_create_session_id(S, session_id, uuid) ==
    IF session_id # "" /\ session_id \in DOMAIN S
    THEN session_id
    ELSE create_session_id(session_id, uuid)

\* get_or_create_session creating a session whether or not one exists
get_or_create_session_AlwaysCreates(S, session_id, uuid, t) ==
    create_session(S, session_id, uuid, t)

get_or_create_session(S, session_id, uuid, t) ==
    IF session_id # "" /\ session_id \in DOMAIN S
    THEN S
    ELSE create_session(S, session_id, uuid, t)

\* add_turn extending the emotion trajectory on every turn, whatever its role
add_turn_TrajectoryEveryTurn(S, session_id, role, content, emotion, language, uuid, t) ==
    LET S1 == get_or_create_session(S, session_id, uuid, t)
        sid == get_or_create_session_id(S, session_id, uuid)
        turn == ConversationTurn(role, content, emotion, language, t)
    IN  [S1 EXCEPT ![sid] =
            [@ EXCEPT
                !.turns = Append(@, turn),
                !.last_activity = t,
                !.current_emotion = IF role = "user" THEN emotion ELSE @,
                !.emotion_trajectory = Append(@, emotion),
                !.language_preference = IF role = "user" THEN language ELSE @]]

\* add_turn taking the current emotion from every turn, whatever its role
add_turn_EmotionEveryTurn(S, session_id, role, content, emotion, language, uuid, t) ==
    LET S1 == get_or_create_session(S, session_id, uuid, t)
        sid == get_or_create_session_id(S, session_id, uuid)
        turn == ConversationTurn(role, content, emotion, language, t)
    IN  [S1 EXCEPT ![sid] =
            [@ EXCEPT
                !.turns = Append(@, turn),
                !.last_activity = t,
                !.current_emotion = emotion,
                !.emotion_trajectory =
                    IF role = "user" THEN Append(@, emotion) ELSE @,
                !.language_preference = IF role = "user" THEN language ELSE @]]

\* add_turn raising the crisis flag of the session it appends to
add_turn_SetsCrisisFlag(S, session_id, role, content, emotion, language, uuid, t) ==
    LET S1 == get_or_create_session(S, session_id, uuid, t)
        sid == get_or_create_session_id(S, session_id, uuid)
        turn == ConversationTurn(role, content, emotion, language, t)
    IN  [S1 EXCEPT ![sid] =
            [@ EXCEPT
                !.turns = Append(@, turn),
                !.last_activity = t,
                !.is_crisis = TRUE,
                !.current_emotion = IF role = "user" THEN emotion ELSE @,
                !.emotion_trajectory =
                    IF role = "user" THEN Append(@, emotion) ELSE @,
                !.language_preference = IF role = "user" THEN language ELSE @]]

add_turn(S, session_id, role, content, emotion, language, uuid, t) ==
    LET S1 == get_or_create_session(S, session_id, uuid, t)
        sid == get_or_create_session_id(S, session_id, uuid)
        turn == ConversationTurn(role, content, emotion, language, t)
    IN  [S1 EXCEPT ![sid] =
            [@ EXCEPT
                !.turns = Append(@, turn),
                !.last_activity = t,
                !.current_emotion = IF role = "user" THEN emotion ELSE @,
                !.emotion_trajectory =
                    IF role = "user" THEN Append(@, emotion) ELSE @,
                !.language_preference = IF role = "user" THEN language ELSE @]]

\* turns[-max_turns:]
LastTurns(turns, max_turns) ==
    LET n == Len(turns)
        from == IF max_turns > 0
                THEN (IF n - max_turns > 0 THEN n - max_turns ELSE 0)
                ELSE (IF -max_turns < n THEN -max_turns ELSE n)
    IN  SubSeq(turns, from + 1, n)

get_history(S, session_id, max_turns) ==
    IF session_id \notin DOMAIN S THEN << >>
    ELSE LET turns == LastTurns(S[session_id].turns, max_turns)
         IN  [i \in 1..Len(turns) |->
                 [role |-> turns[i].role, content |-> turns[i].content]]

get_emotion_trajectory(S, session_id) ==
    IF session_id \notin DOMAIN S THEN << >>
    ELSE S[session_id].emotion_trajectory

get_language_preference(S, session_id) ==
    IF session_id \notin DOMAIN S THEN "en"
    ELSE S[session_id].language_preference

\* set_crisis_flag flipping the flag instead of assigning it
set_crisis_flag_Toggles(S, session_id, is_crisis) ==
    IF session_id \in DOMAIN S
    THEN [S EXCEPT ![session_id].is_crisis = ~@]
    ELSE S

\* set_crisis_flag going through get_or_create_session
set_crisis_flag_CreatesSession(S, session_id, is_crisis) ==
    IF session_id \in DOMAIN S
    THEN [S EXCEPT ![session_id].is_crisis = is_crisis]
    ELSE [k \in DOMAIN S \cup {session_id} |->
            IF k = session_id
            THEN [SessionState(session_id, 0) EXCEPT !.is_crisis = is_crisis]
            ELSE S[k]]

set_crisis_flag(S, session_id, is_crisis) ==
    IF session_id \in DOMAIN S
    THEN [S EXCEPT ![session_id].is_crisis = is_crisis]
    ELSE S

UserTurns(session) == SelectSeq(session.turns, LAMBDA turn : turn.role = "user")

\* sep.join(parts)
RECURSIVE join(_, _)
join(sep, parts) ==
    IF parts = << >> THEN ""
    ELSE IF Len(parts) = 1 THEN parts[1]
    ELSE parts[1] \o sep \o join(sep, Tail(parts))

\* emotions.get_emotion_trajectory_summary; " -> " stands for the arrow
\* between the tags
get_emotion_trajectory_summary(trajectory) ==
    IF trajectory = << >> THEN "No emotional trajectory data yet."
    ELSE IF Len(trajectory) = 1
    THEN "User's current emotional state: " \o trajectory[1]
    ELSE
    LET recent == LastTurns(trajectory, 3)
        n == Len(recent)
        trajectory_str == join(" -> ", recent)
    IN  IF n >= 2 /\ recent[n] = "positive"
        THEN "Emotion trajectory: " \o trajectory_str
                 \o ". User seems to be feeling better."
        ELSE IF n >= 2 /\ recent[n] = "neutral"
                       /\ recent[n - 1] \in {"sad", "anxious"}
        THEN "Emotion trajectory: " \o trajectory_str
                 \o ". User appears to be stabilizing."
        ELSE IF \A i \in 1..n : recent[i] \in {"sad", "anxious"}
        THEN "Emotion trajectory: " \o trajectory_str
                 \o ". User has been consistently distressed."
        ELSE "Emotion trajectory: " \o trajectory_str \o "."

\* get_context_summary noting the improvement only on a positive tag
get_context_summary_PositiveOnly(S, session_id) ==
    IF session_id \notin DOMAIN S THEN "New session - no prior context."
    ELSE
    LET session == S[session_id]
        traj == session.emotion_trajectory
        recent == LastTurns(traj, 5)
        n == Len(recent)
    IN  join(" ",
          << "Session has " \o ToString(Len(UserTurns(session))) \o " user turns so far.",
             "User's current language preference: " \o session.language_preference,
             "User's current detected emotional state: " \o session.current_emotion >>
          \o (IF Len(traj) >= 2
              THEN << "Emotion trajectory: " \o join(" -> ", recent) >>
                   \o (IF recent[n] = "positive"
                          /\ recent[n - 1] \in {"sad", "anxious"}
                       THEN << "Note: User appears to be feeling better than earlier." >>
                       ELSE << >>)
              ELSE << >>)
          \o (IF session.is_crisis
              THEN << "CRISIS FLAG: Safety keywords were detected earlier in this session." >>
              ELSE << >>))

get_context_summary(S, session_id) ==
    IF session_id \notin DOMAIN S THEN "New session - no prior context."
    ELSE
    LET session == S[session_id]
        traj == session.emotion_trajectory
        recent == LastTurns(traj, 5)
        n == Len(recent)
    IN  join(" ",
          << "Session has " \o ToString(Len(UserTurns(session))) \o " user turns so far.",
             "User's current language preference: " \o session.language_preference,
             "User's current detected emotional state: " \o session.current_emotion >>
          \o (IF Len(traj) >= 2
              THEN << "Emotion trajectory: " \o join(" -> ", recent) >>
                   \o (IF recent[n] \in {"positive", "neutral"}
                          /\ recent[n - 1] \in {"sad", "anxious"}
                       THEN << "Note: User appears to be feeling better than earlier." >>
                       ELSE << >>)
              ELSE << >>)
          \o (IF session.is_crisis
              THEN << "CRISIS FLAG: Safety keywords were detected earlier in this session." >>
              ELSE << >>))

\* the orders list(set(...)) can give the elements of E
Orders(E) == {p \in [1..Cardinality(E) -> E] : {p[i] : i \in DOMAIN p} = E}

\* the summaries close_session can return: one for each order in which
\* list(set(...)) gives the emotions seen; None for an unknown ID
close_session_summaries(S, session_id) ==
    IF session_id \notin DOMAIN S THEN {None}
    ELSE
    LET session == S[session_id]
        user_turns == UserTurns(session)
        traj == session.emotion_trajectory
    IN  IF user_turns = << >>
        THEN {Some("Session ended without meaningful interaction.")}
        ELSE {Some("Session with " \o ToString(Len(user_turns)) \o " user turns. "
                   \o "Language: " \o session.language_preference \o ". "
                   \o "Emotions observed: " \o join(", ", emotions_seen) \o ". "
                   \o "Crisis flag: "
                   \o (IF session.is_crisis THEN "Yes" ELSE "No") \o ".") :
                emotions_seen \in Orders({traj[i] : i \in DOMAIN traj})}

\* close_session leaving the session in the store
close_session_KeepsSession(S, session_id) == S

close_session(S, session_id) ==
    IF session_id \notin DOMAIN S THEN S
    ELSE [k \in DOMAIN S \ {session_id} |-> S[k]]

get_active_session_count(S) == Cardinality(DOMAIN S)

\* the sweep taking a session for stale from the threshold on
StaleSessions_AtThreshold(S, max_age_minutes, t) ==
    {sid \in DOMAIN S : t - S[sid].last_activity >= max_age_minutes * 60}

\* the list "stale" of cleanup_stale_sessions; ages are in seconds
StaleSessions(S, max_age_minutes, t) ==
    {sid \in DOMAIN S : t - S[sid].last_activity > max_age_minutes * 60}

cleanup_stale_sessions(S, max_age_minutes, t) ==
    [k \in DOMAIN S \ StaleSessions(S, max_age_minutes, t) |-> S[k]]

\* the value cleanup_stale_sessions returns: len(stale)
cleanup_stale_sessions_count(S, max_age_minutes, t) ==
    Cardinality(StaleSessions(S, max_age_minutes, t))

\* config.SILENCE_THRESHOLDS
SILENCE_THRESHOLDS ==
    (5 :> [en |-> "Take your time. I'm right here.",
           hi |-> "Koi jaldi nahi. Main yahan hoon."])
    @@ (10 :> [en |-> "No rush at all. We can just sit here.",
               hi |-> "Bilkul theek hai. Baat na karein toh bhi."])
    @@ (15 :> [en |-> "It's okay if you don't want to talk right now.",
               hi |-> "Koi baat nahi agar abhi baat nahi karni."])
    @@ (20 :> [en |-> "Take care. Come back anytime you'd like.",
               hi |-> "Apna khayal rakhein. Jab chahein aayein."])

\* sorted(K) for a set K of integers
RECURSIVE sorted(_)
sorted(K) ==
    IF K = {} THEN << >>
    ELSE LET least == CHOOSE k \in K : \A j \in K : k <= j
         IN  << least >> \o sorted(K \ {least})

\* get_silence_response returning nothing beyond the highest threshold
get_silence_response_NoClamp(silence_seconds, language) ==
    LET lang_key == IF language \in {"hi", "hi-en"} THEN "hi" ELSE "en"
        reached == SelectSeq(sorted(DOMAIN SILENCE_THRESHOLDS),
                             LAMBDA threshold : silence_seconds <= threshold)
    IN  IF reached # << >>
        THEN Some(SILENCE_THRESHOLDS[reached[1]][lang_key])
        ELSE None

get_silence_response(silence_seconds, language) ==
    LET lang_key == IF language \in {"hi", "hi-en"} THEN "hi" ELSE "en"
        reached == SelectSeq(sorted(DOMAIN SILENCE_THRESHOLDS),
                             LAMBDA threshold : silence_seconds <= threshold)
    IN  IF reached # << >>
        THEN Some(SILENCE_THRESHOLDS[reached[1]][lang_key])
        ELSE Some(SILENCE_THRESHOLDS[20][lang_key])

(***************************************************************************)
(* Bounds of the model and the inputs the endpoints are driven with.       *)
(***************************************************************************)
\* process_message invocations
MaxReqs == 2

\* values drawn from uuid.uuid4()
MaxUuids == 3

\* session IDs the endpoints generate for clients: the first values drawn
MaxIssued == 1

\* the clock advances at most this many times
MaxTicks == 1

\* seconds that pass in one advance of the clock
SecondsPerTick == 2000

Reqs == 1..MaxReqs

\* the (text, language hint) pairs the pipeline is called with
Utterances ==
    { << "I want to kill myself", "hi" >>,
      << "Main khudkushi karna chahta hoon", "en" >>,
      << "nothing matters", "en" >>,
      << "Mujhe neend nahi aa rahi", "" >> }

\* the texts POST /chat is called with when it is given no language
UnhintedTexts == {"@# tension hai"}

\* the transcripts the webhook is called with
Transcripts == {"I want to kill myself", "nothing matters"}

ClientSessionIds == {"s1"}

\* message.call.id of the webhook bodies
CallIds == {"s1", ""}

\* message.content of the completion the generation call returns
LLMContents == {" Tell me more. ", "  "}

\* max_age_minutes: the default of cleanup_stale_sessions and the value
\* lifespan passes at shutdown
MaxAges == {30, 0}

uuid4(n) == "uuid-" \o ToString(n)

\* how many values uuid.uuid4() returns during "calls" calls of
\* get_or_create_session or add_turn for session_id: "session_id or
\* str(uuid.uuid4())" draws one only when session_id is empty
Drawn(session_id, calls) == IF session_id = "" THEN calls ELSE 0

(***************************************************************************)
(* State.                                                                  *)
(*   sessions   conversation._sessions                                     *)
(*   clock      the wall clock, in seconds                                 *)
(*   uuids      how many values uuid.uuid4() has returned                  *)
(*   arrivals   how many process_message invocations have started          *)
(*   req        the frame of each process_message invocation: its          *)
(*              arguments, its position pc, its locals, its return value   *)
(*   running    the invocation the event loop is executing (0: none); an   *)
(*              asyncio task runs alone from one await to the next         *)
(*   turn_owner history: for each session, the invocation that appended    *)
(*              each of its turns (0: none), parallel to its turns         *)
(*   last_sweep history: the sessions the staleness sweep deleted, when    *)
(*              the latest change of the store was a sweep (else none)     *)
(*   call       a direct call of a function of the classifiers or of the   *)
(*              store, with its arguments (None: no such call)             *)
(*   ret        the value that call returned (None: it has not returned)   *)
(***************************************************************************)
VARIABLES sessions, clock, uuids, arrivals, req, running, turn_owner,
          last_sweep, call, ret

vars ==
    << sessions, clock, uuids, arrivals, req, running, turn_owner, last_sweep,
       call, ret >>

IdleFrame ==
    [pc |-> "idle", text |-> "", session_id |-> "", language_hint |-> "",
     start_time |-> 0, language |-> "", safety |-> None,
     emotion_quick |-> "", session |-> "", messages |-> << >>,
     assistant_response |-> None,
     result |-> None,
     \* history: the steps taken, the text the safety check was run on, the
     \* generation calls issued and how the call ended, the session when
     \* the invocation started and when it returned, and whether another
     \* operation changed the session while the invocation was suspended
     \* and whether the caller of the endpoint gave the language hint;
     \* closed: the session was closed while the invocation was suspended
     hint_supplied |-> TRUE, closed |-> FALSE,
     trace |-> << >>, safety_text |-> None, llm_calls |-> 0,
     llm_outcome |-> "none", llm_content |-> None,
     session_before |-> None, session_after |-> None, disturbed |-> FALSE]

\* the owners of the turns of the sessions of S1, after invocation r (0: an
\* endpoint) took the store from S to S1: a session deleted or created
\* anew loses its owners, and each turn added is owned by r
Owners(S, S1, r) ==
    [k \in DOMAIN S1 |->
        LET old == IF k \in DOMAIN S /\ k \in DOMAIN turn_owner
                      /\ Len(S1[k].turns) >= Len(S[k].turns)
                      /\ S1[k].created_at = S[k].created_at
                      /\ SubSeq(S1[k].turns, 1, Len(S[k].turns)) = S[k].turns
                   THEN turn_owner[k] ELSE << >>
        IN  old \o [i \in 1..(Len(S1[k].turns) - Len(old)) |-> r]]

\* the session IDs whose entry differs between the stores S and S1
Changed(S, S1) ==
    {k \in DOMAIN S \cup DOMAIN S1 : get_session(S, k) # get_session(S1, k)}

\* the frames after an operation of invocation q (0: an endpoint) took the
\* store from S to S1: the other invocations suspended on a session that
\* changed are marked
Disturb(R, q, S, S1) ==
    [r \in Reqs |->
        IF r # q /\ R[r].pc = "awaiting" /\ R[r].session_id \in Changed(S, S1)
        THEN [R[r] EXCEPT !.disturbed = TRUE]
        ELSE R[r]]

Init ==
    /\ sessions = [k \in {} |-> SessionState(k, 0)]
    /\ clock = 0
    /\ uuids = 0
    /\ arrivals = 0
    /\ req = [r \in Reqs |-> IdleFrame]
    /\ running = 0
    /\ turn_owner = [k \in {} |-> << >>]
    /\ last_sweep = {}
    /\ call = None
    /\ ret = None

Step(r, name) == Append(req[r].trace, name)

(***************************************************************************)
(* server/main.py: process_message.  The function has one await, the       *)
(* generation call; every other statement runs without yielding.           *)
(***************************************************************************)
\* entry of process_message(text, session_id, language_hint), line 114;
\* supplied: the hint is the one the caller of the endpoint gave
EnterWith(text, session_id, language_hint, supplied) ==
    /\ running = 0
    /\ arrivals < MaxReqs
    /\ arrivals' = arrivals + 1
    /\ running' = arrivals + 1
    /\ req' = [req EXCEPT ![arrivals + 1] =
          [IdleFrame EXCEPT
              !.pc = "received", !.text = text, !.session_id = session_id,
              !.language_hint = language_hint, !.start_time = clock,
              !.hint_supplied = supplied,
              !.trace = << "received" >>,
              !.session_before = get_session(sessions, session_id)]]
    /\ UNCHANGED << sessions, clock, turn_owner, last_sweep, call, ret >>

Enter(text, session_id, language_hint) ==
    EnterWith(text, session_id, language_hint, TRUE)

\* ChatRequest.language when the body of POST /chat has no "language"
ChatRequestLanguageDefault == "en"

\* POST /chat with a session_id and without language
ChatRequestNoLanguage(text, session_id) ==
    /\ session_id # ""
    /\ EnterWith(text, session_id, ChatRequestLanguageDefault, FALSE)
    /\ UNCHANGED uuids

\* POST /chat with a session_id: chat_endpoint
ChatRequest(text, session_id, language) ==
    /\ session_id # ""
    /\ Enter(text, session_id, language)
    /\ UNCHANGED uuids

\* POST /chat without a session_id: session_id = str(uuid.uuid4())
ChatRequestNewSession(text, language) ==
    /\ uuids < MaxIssued
    /\ uuids' = uuids + 1
    /\ Enter(text, uuid4(uuids + 1), language)

\* POST /vapi/webhook, a transcript of call call_id: the hint is "en"
VapiTranscript(transcript, call_id) ==
    /\ transcript # ""
    /\ Enter(transcript, call_id, "en")
    /\ UNCHANGED uuids

\* Layer 1 with a fast path: an utterance detected as English under an
\* English hint is taken as SAFE, and the keyword scan is not run on it
DetectLanguage_TrustsEnglishHint(r) ==
    LET language == detect_language(req[r].text, req[r].language_hint)
        trusted == language = "en" /\ req[r].language_hint = "en"
    IN  /\ running = r
        /\ req[r].pc = "received"
        /\ req' = [req EXCEPT ![r] =
              [@ EXCEPT !.pc = IF trusted THEN "safety_checked"
                                         ELSE "language_detected",
                        !.language = language,
                        !.safety = IF trusted
                                   THEN Some(SafetyResult("safe", << >>, None, None))
                                   ELSE @,
                        !.trace = Step(r, "detect_language")]]
        /\ UNCHANGED << sessions, clock, uuids, arrivals, running, turn_owner, last_sweep, call, ret >>

\* Layer 1
DetectLanguage(r) ==
    /\ running = r
    /\ req[r].pc = "received"
    /\ req' = [req EXCEPT ![r] =
          [@ EXCEPT !.pc = "language_detected",
                    !.language = detect_language(req[r].text, req[r].language_hint),
                    !.trace = Step(r, "detect_language")]]
    /\ UNCHANGED << sessions, clock, uuids, arrivals, running, turn_owner, last_sweep, call, ret >>

\* Layer 2
SafetyCheck(r) ==
    /\ running = r
    /\ req[r].pc = "language_detected"
    /\ req' = [req EXCEPT ![r] =
          [@ EXCEPT !.pc = "safety_checked",
                    !.safety = Some(check_safety(req[r].text, req[r].language)),
                    !.safety_text = Some(req[r].text),
                    !.trace = Step(r, "check_safety")]]
    /\ UNCHANGED << sessions, clock, uuids, arrivals, running, turn_owner, last_sweep, call, ret >>

\* the branch condition compared against the wrong level
IsCrisis_WarningLevel(safety) == safety.level = "warning"

\* if safety.level == SafetyLevel.CRISIS
IsCrisis(safety) == safety.level = "crisis"

\* the dict process_message returns
Result(response, language, emotion, is_crisis, safety_response, latency_ms) ==
    [response |-> response, language |-> language, emotion |-> emotion,
     is_crisis |-> is_crisis, safety_response |-> safety_response,
     latency_ms |-> latency_ms]

\* the session store after the crisis branch, lines 125-135, when n values
\* of uuid4 were drawn before
CrisisStore(S, session_id, text, language, n, t) ==
    LET S1 == set_crisis_flag(S, session_id, TRUE)
        S2 == add_turn(S1, session_id, "user", text,
                       detect_emotion_sync(text), language, uuid4(n + 1), t)
    IN  add_turn(S2, session_id, "assistant", get_crisis_override(language),
                 "neutral", language, uuid4(n + 2), t)

\* CRISIS: bypass the LLM, play the safety script, return
CrisisBranch(r) ==
    LET f == req[r]
        crisis_response == get_crisis_override(f.language)
    IN  /\ running = r
        /\ f.pc = "safety_checked"
        /\ IsCrisis(f.safety[1])
        /\ uuids + Drawn(f.session_id, 2) <= MaxUuids
        /\ uuids' = uuids + Drawn(f.session_id, 2)
        /\ sessions' = CrisisStore(sessions, f.session_id, f.text, f.language,
                                   uuids, clock)
        /\ turn_owner' = Owners(sessions, sessions', r)
        /\ last_sweep' = {}
        /\ req' = [Disturb(req, r, sessions, sessions') EXCEPT ![r] =
              [@ EXCEPT !.pc = "done",
                        !.assistant_response = Some(crisis_response),
                        !.result = Some(Result(crisis_response, f.language,
                                        "crisis", TRUE, Some(crisis_response),
                                        (clock - f.start_time) * 1000)),
                        !.session_after = get_session(sessions', f.session_id),
                        !.trace = Step(r, "crisis_terminal")]]
        /\ running' = 0
        /\ UNCHANGED << clock, arrivals, call, ret >>

\* Layers 3 and 4: the fast emotion tag, then the user turn
RecordUserTurn(r) ==
    LET f == req[r]
        emotion_quick == detect_emotion_sync(f.text)
        S1 == get_or_create_session(sessions, f.session_id, uuid4(uuids + 1), clock)
        \* the object "session" of line 149, by the ID it is stored under
        session == get_or_create_session_id(sessions, f.session_id, uuid4(uuids + 1))
    IN  /\ running = r
        /\ f.pc = "safety_checked"
        /\ ~IsCrisis(f.safety[1])
        /\ uuids + Drawn(f.session_id, 2) <= MaxUuids
        /\ uuids' = uuids + Drawn(f.session_id, 2)
        /\ sessions' = add_turn(S1, f.session_id, "user", f.text, emotion_quick,
                                f.language, uuid4(uuids + 2), clock)
        /\ turn_owner' = Owners(sessions, sessions', r)
        /\ last_sweep' = {}
        /\ req' = [Disturb(req, r, sessions, sessions') EXCEPT ![r] =
              [@ EXCEPT !.pc = "user_recorded",
                        !.emotion_quick = emotion_quick,
                        !.session = session,
                        !.trace = Step(r, "user_turn")]]
        /\ UNCHANGED << clock, arrivals, running, call, ret >>

WARNING_DIRECTIVE ==
    "IMPORTANT: The user's message contains concerning language. "
    \o "While not an immediate crisis, naturally weave in awareness of helpline resources "
    \o "and show extra care. Do NOT alarm the user or label their feelings explicitly."

Message(role, content) == [role |-> role, content |-> content]

\* the list "messages" without the branch on the WARNING level
BuildMessages_NoDirective(S, session_id, session, language, safety) ==
    LET context_summary == get_context_summary(S, session_id)
        history == get_history(S, session_id, 20)
        system_prompt == get_system_prompt(language, context_summary)
        first_turn == Len(UserTurns(S[session])) = 1
    IN  << Message("system", system_prompt) >>
        \o (IF first_turn
            THEN << Message("assistant", get_opening_script(language)) >>
            ELSE << >>)
        \o history
        \o << Message("system", "Language instruction for this turn: "
                                \o get_language_instruction(language)) >>

\* the list "messages" of lines 157-186
BuildMessages(S, session_id, session, language, safety) ==
    LET context_summary == get_context_summary(S, session_id)
        history == get_history(S, session_id, 20)
        system_prompt == get_system_prompt(language, context_summary)
        first_turn == Len(UserTurns(S[session])) = 1
    IN  << Message("system", system_prompt) >>
        \o (IF first_turn
            THEN << Message("assistant", get_opening_script(language)) >>
            ELSE << >>)
        \o history
        \o << Message("system", "Language instruction for this turn: "
                                \o get_language_instruction(language)) >>
        \o (IF safety.level = "warning"
            THEN << Message("system", WARNING_DIRECTIVE) >>
            ELSE << >>)

\* Layer 5, up to the generation call
BuildContext(r) ==
    LET f == req[r]
    IN  /\ running = r
        /\ f.pc = "user_recorded"
        /\ req' = [req EXCEPT ![r] =
              [@ EXCEPT !.pc = "context_built",
                        !.messages = BuildMessages(sessions, f.session_id,
                                          f.session, f.language, f.safety[1]),
                        !.trace = Step(r, "build_context")]]
        /\ UNCHANGED << sessions, clock, uuids, arrivals, running, turn_owner, last_sweep, call, ret >>

\* await client.chat.completions.create(...): the task is suspended
Generate(r) ==
    /\ running = r
    /\ req[r].pc = "context_built"
    /\ req' = [req EXCEPT ![r] =
          [@ EXCEPT !.pc = "awaiting",
                    !.llm_calls = @ + 1,
                    !.trace = Step(r, "generate")]]
    /\ running' = 0
    /\ UNCHANGED << sessions, clock, uuids, arrivals, turn_owner, last_sweep, call, ret >>

\* the except branch: the fixed line for the language
Fallback(lang_code) ==
    IF lang_code \in {"hi", "hi-en"}
    THEN "Main sun raha hoon. Kya aap thoda aur bata sakte hain?"
    ELSE "I hear you. Would you like to tell me a bit more?"

\* Layer 6 and the return, lines 208-224
StoreAssistant(r, assistant_response, outcome, content) ==
    LET f == req[r]
    IN  /\ uuids + Drawn(f.session_id, 1) <= MaxUuids
        /\ uuids' = uuids + Drawn(f.session_id, 1)
        /\ sessions' = add_turn(sessions, f.session_id, "assistant",
                                assistant_response, "neutral", f.language,
                                uuid4(uuids + 1), clock)
        /\ turn_owner' = Owners(sessions, sessions', r)
        /\ last_sweep' = {}
        /\ req' = [Disturb(req, r, sessions, sessions') EXCEPT ![r] =
              [@ EXCEPT !.pc = "done",
                        !.assistant_response = Some(assistant_response),
                        !.llm_outcome = outcome,
                        !.llm_content = content,
                        !.result = Some(Result(assistant_response, f.language,
                              f.emotion_quick, FALSE,
                              IF f.safety[1].level = "warning"
                              THEN f.safety[1].crisis_response ELSE None,
                              (clock - f.start_time) * 1000)),
                        !.session_after = get_session(sessions', f.session_id),
                        !.trace = Step(r, "assistant_turn")]]
        /\ UNCHANGED << clock, arrivals, running, call, ret >>

\* the completion arrives: response.choices[0].message.content.strip()
GenerationReturns(r, content) ==
    /\ running = 0
    /\ req[r].pc = "awaiting"
    /\ StoreAssistant(r, strip(content), "returned", Some(content))

\* the call raises an Exception (API error, timeout), or the completion has
\* no choices or no content and line 198 raises
GenerationRaises(r) ==
    /\ running = 0
    /\ req[r].pc = "awaiting"
    /\ StoreAssistant(r, Fallback(req[r].language), "raised", None)

\* the task is cancelled while suspended: asyncio.CancelledError is a
\* BaseException, which "except Exception" does not catch
GenerationCancelled(r) ==
    /\ running = 0
    /\ req[r].pc = "awaiting"
    /\ req' = [req EXCEPT ![r] =
          [@ EXCEPT !.pc = "cancelled",
                    !.llm_outcome = "cancelled",
                    !.trace = Step(r, "cancelled")]]
    /\ UNCHANGED << sessions, clock, uuids, arrivals, running, turn_owner, last_sweep, call, ret >>

(***************************************************************************)
(* The other endpoints and the clock.                                      *)
(***************************************************************************)
\* POST /session/create
CreateSessionEndpoint ==
    /\ running = 0
    /\ uuids < MaxIssued
    /\ uuids' = uuids + 1
    /\ sessions' = create_session(sessions, "", uuid4(uuids + 1), clock)
    /\ turn_owner' = Owners(sessions, sessions', 0)
    /\ last_sweep' = {}
    /\ req' = Disturb(req, 0, sessions, sessions')
    /\ UNCHANGED << clock, arrivals, running, call, ret >>

\* POST /session/{id}/close and the end-of-call report of the webhook
CloseSessionEndpoint(session_id) ==
    /\ running = 0
    /\ session_id \in DOMAIN sessions
    /\ sessions' = close_session(sessions, session_id)
    /\ turn_owner' = Owners(sessions, sessions', 0)
    /\ last_sweep' = {}
    /\ req' = [r \in Reqs |->
                 IF req[r].pc = "awaiting" /\ req[r].session_id = session_id
                 THEN [Disturb(req, 0, sessions, sessions')[r]
                          EXCEPT !.closed = TRUE]
                 ELSE req[r]]
    /\ UNCHANGED << clock, uuids, arrivals, running, call, ret >>

\* the staleness sweep
Sweep(max_age_minutes) ==
    /\ running = 0
    /\ StaleSessions(sessions, max_age_minutes, clock) # {}
    /\ sessions' = cleanup_stale_sessions(sessions, max_age_minutes, clock)
    /\ turn_owner' = Owners(sessions, sessions', 0)
    /\ last_sweep' = StaleSessions(sessions, max_age_minutes, clock)
    /\ req' = Disturb(req, 0, sessions, sessions')
    /\ UNCHANGED << clock, uuids, arrivals, running, call, ret >>

Tick ==
    /\ running = 0
    /\ clock < MaxTicks * SecondsPerTick
    /\ clock' = clock + SecondsPerTick
    /\ UNCHANGED << sessions, uuids, arrivals, req, running, turn_owner, last_sweep, call, ret >>

\* the session IDs a client can name: its own and those of live sessions
SessionIds == ClientSessionIds \cup DOMAIN sessions

Next ==
    \/ \E u \in Utterances, sid \in SessionIds : ChatRequest(u[1], sid, u[2])
    \/ \E u \in Utterances : ChatRequestNewSession(u[1], u[2])
    \/ \E text \in UnhintedTexts, sid \in ClientSessionIds :
          ChatRequestNoLanguage(text, sid)
    \/ \E text \in Transcripts, call_id \in CallIds : VapiTranscript(text, call_id)
    \/ \E r \in Reqs : DetectLanguage(r)
    \/ \E r \in Reqs : SafetyCheck(r)
    \/ \E r \in Reqs : CrisisBranch(r)
    \/ \E r \in Reqs : RecordUserTurn(r)
    \/ \E r \in Reqs : BuildContext(r)
    \/ \E r \in Reqs : Generate(r)
    \/ \E r \in Reqs, content \in LLMContents : GenerationReturns(r, content)
    \/ \E r \in Reqs : GenerationRaises(r)
    \/ \E r \in Reqs : GenerationCancelled(r)
    \/ CreateSessionEndpoint
    \/ \E sid \in SessionIds : CloseSessionEndpoint(sid)
    \/ \E max_age_minutes \in MaxAges : Sweep(max_age_minutes)
    \/ Tick

Spec == Init /\ [][Next]_vars

(***************************************************************************)
(* The properties of process_message and of the session store.             *)
(***************************************************************************)
\* the invocation r has run the safety check and it returned CRISIS
Crisis(r) == req[r].safety # None /\ req[r].safety[1].level = "crisis"

\* the invocation r has returned
Returned(r) == req[r].pc = "done"

\* the turns of an optional session
TurnsOf(session) == IF session = None THEN << >> ELSE session[1].turns

\* the elements of a sequence
Range(seq) == {seq[i] : i \in DOMAIN seq}

\* C1: on a turn for which check_safety returned CRISIS, process_message
\* never issues the generation call: the invocation is either about to take
\* the crisis branch or has returned from it, with is_crisis true in its
\* result and no generation step in its history, whatever the session held
\* and whatever the language hint was.
C1_CrisisNeverGenerates ==
    \A r \in Reqs :
        Crisis(r) =>
            /\ req[r].llm_calls = 0
            /\ "generate" \notin Range(req[r].trace)
            /\ req[r].pc \in {"safety_checked", "done"}
            /\ Returned(r) => req[r].result[1].is_crisis

\* a CRISIS turn has returned on a session that already held turns
C1_Witness ==
    \E r \in Reqs :
        /\ Crisis(r)
        /\ Returned(r)
        /\ Len(TurnsOf(req[r].session_before)) > 0

\* C2: after process_message has completed a CRISIS turn for session ID S,
\* the session S exists and its crisis flag is true, also when no session S
\* existed before the turn.
C2_CrisisFlagSet ==
    \A r \in Reqs :
        (Crisis(r) /\ Returned(r)) =>
            /\ req[r].session_after # None
            /\ req[r].session_after[1].is_crisis

\* C3: in every invocation, each generation call is preceded by a run of
\* check_safety of the same invocation, on the text of that invocation.
C3_SafetyBeforeGeneration ==
    \A r \in Reqs :
        \A j \in DOMAIN req[r].trace :
            req[r].trace[j] = "generate" =>
                /\ \E i \in 1..(j - 1) : req[r].trace[i] = "check_safety"
                /\ req[r].safety_text = Some(req[r].text)
                /\ req[r].safety # None

\* an invocation is suspended in its generation call, after a safety check
\* that returned WARNING
C3_Witness ==
    \E r \in Reqs :
        /\ req[r].pc = "awaiting"
        /\ req[r].llm_calls = 1
        /\ req[r].safety # None
        /\ req[r].safety[1].level = "warning"

\* C4: a process_message call that has returned, with no other operation
\* on its session while it was suspended, has appended exactly two turns to
\* the session of its session ID: a user turn holding the input text, then
\* an assistant turn holding the response it returned.
C4_TwoTurnsAppended ==
    \A r \in Reqs :
        (Returned(r) /\ ~req[r].disturbed) =>
            LET before == TurnsOf(req[r].session_before)
                after == TurnsOf(req[r].session_after)
                n == Len(before)
            IN  /\ Len(after) = n + 2
                /\ SubSeq(after, 1, n) = before
                /\ after[n + 1].role = "user"
                /\ after[n + 1].content = req[r].text
                /\ after[n + 2].role = "assistant"
                /\ after[n + 2].content = req[r].result[1].response

\* the generation call of invocation r failed: it raised, or the content it
\* returned is empty once stripped
GenerationFailed(r) ==
    \/ req[r].llm_outcome = "raised"
    \/ /\ req[r].llm_outcome = "returned"
       /\ strip(req[r].llm_content[1]) = ""

\* C5: on a non-crisis turn whose generation call failed (an error, a
\* timeout, malformed or empty output), process_message returns the fixed
\* fallback line of the resolved language and records it as the assistant
\* turn.
C5_FailureFallsBack ==
    \A r \in Reqs :
        (Returned(r) /\ ~Crisis(r) /\ GenerationFailed(r)) =>
            LET after == TurnsOf(req[r].session_after)
            IN  /\ req[r].result[1].response = Fallback(req[r].language)
                /\ (after # << >> /\ ~req[r].disturbed) =>
                       after[Len(after)].content = Fallback(req[r].language)

\* C6: on the crisis branch the response returned is the Hindi crisis
\* script when the resolved language is hi or hi-en or a keyword of the
\* Hindi crisis list matched, and the English crisis script otherwise.
C6_CrisisScriptLanguage ==
    \A r \in Reqs :
        (Crisis(r) /\ Returned(r)) =>
            req[r].result[1].response =
                IF \/ req[r].language \in {"hi", "hi-en"}
                   \/ check_keywords(req[r].text, CRISIS_KEYWORDS_HI) # << >>
                THEN CRISIS_OVERRIDE_HI
                ELSE CRISIS_OVERRIDE_EN

\* C7: a turn whose generation call was cancelled still completes: it
\* returns, with the fallback line as its response.
C7_CancelledStillFallsBack ==
    \A r \in Reqs :
        req[r].llm_outcome = "cancelled" =>
            /\ Returned(r)
            /\ req[r].assistant_response = Some(Fallback(req[r].language))

\* C8: in no session are the turns of one invocation split by a turn of
\* another invocation.
C8_NoInterleaving ==
    \A sid \in DOMAIN turn_owner :
        \A i, j, k \in DOMAIN turn_owner[sid] :
            (i < j /\ j < k /\ turn_owner[sid][i] = turn_owner[sid][k]) =>
                turn_owner[sid][j] = turn_owner[sid][i]

\* C9: in every session the turns are in the arrival order of the
\* invocations that appended them (invocations are numbered as they arrive).
C9_ArrivalOrder ==
    \A sid \in DOMAIN turn_owner :
        \A i, j \in DOMAIN turn_owner[sid] :
            i < j => turn_owner[sid][i] <= turn_owner[sid][j]

\* the invocation r is in flight: its user turn is recorded, its assistant
\* turn is not
InFlight(r) == req[r].pc \in {"user_recorded", "context_built", "awaiting"}

\* C10: the staleness sweep deletes no session that an invocation in flight
\* was called with.
C10_SweepSparesInFlight ==
    \A sid \in last_sweep :
        ~\E r \in Reqs : InFlight(r) /\ req[r].session_id = sid

\* C11: the crisis flag is sticky: in every step, a session whose crisis
\* flag is true and which is still in the store after the step (it was not
\* destroyed by close or by the sweep) has its crisis flag true after the
\* step, whatever turn of process_message or other operation the step is.
C11_CrisisFlagSticky ==
    [][\A sid \in DOMAIN sessions \cap DOMAIN sessions' :
          sessions[sid].is_crisis => sessions'[sid].is_crisis]_vars

\* a turn that was not CRISIS has returned on a session whose crisis flag
\* was true when the turn started, after a suspension in the generation call
C11_Witness ==
    \E r \in Reqs :
        /\ Returned(r)
        /\ ~Crisis(r)
        /\ req[r].llm_outcome \in {"returned", "raised"}
        /\ req[r].session_before # None
        /\ req[r].session_before[1].is_crisis
        /\ req[r].session_after # None
        /\ req[r].session_after[1].is_crisis

\* C16: in the result of a returned process_message the advisory text
\* safety_response is absent on SAFE and on CRISIS turns, and on WARNING
\* turns it is the advisory of the safety result.
C16_AdvisoryOnlyOnWarning ==
    \A r \in Reqs :
        Returned(r) =>
            req[r].result[1].safety_response =
                IF req[r].safety[1].level = "warning"
                THEN req[r].safety[1].crisis_response
                ELSE None

\* C19: a turn whose caller gave no language hint and whose text holds a
\* Devanagari character is resolved to Hindi: process_message returns
\* language "hi" and records the user turn and the assistant turn with
\* language Hindi.
C19_DevanagariWithoutHint ==
    \A r \in Reqs :
        (Returned(r) /\ ~req[r].hint_supplied /\ has_devanagari(req[r].text)) =>
            LET after == TurnsOf(req[r].session_after)
                n == Len(after)
            IN  /\ req[r].result[1].language = "hi"
                /\ ~req[r].disturbed =>
                      /\ n >= 2
                      /\ after[n - 1].language = "hi"
                      /\ after[n].language = "hi"

\* C21: in every reachable state, each session of the store has an emotion
\* trajectory as long as its user-role turns are many, and the i-th entry
\* of the trajectory is the emotion tag of the i-th user turn.
C21_TrajectoryFollowsUserTurns ==
    \A sid \in DOMAIN sessions :
        LET user == UserTurns(sessions[sid])
            traj == sessions[sid].emotion_trajectory
        IN  /\ Len(traj) = Len(user)
            /\ \A i \in 1..Len(user) : traj[i] = user[i].emotion

\* a session holds two user turns with different emotion tags, one of them
\* recorded by the crisis branch, and assistant turns between them
C21_Witness ==
    \E sid \in DOMAIN sessions :
        LET session == sessions[sid]
            user == UserTurns(session)
        IN  /\ session.is_crisis
            /\ Len(user) = 2
            /\ Len(session.turns) = 4
            /\ user[1].emotion # user[2].emotion
            /\ session.emotion_trajectory = << user[1].emotion, user[2].emotion >>

\* the language preference of every session of S that has a user turn is
\* the language of its latest user turn
PreferenceFollowsUser(S) ==
    \A sid \in DOMAIN S :
        LET user == UserTurns(S[sid])
        IN  Len(user) >= 1 =>
                S[sid].language_preference = user[Len(user)].language

\* the step appends exactly one turn, an assistant turn, to the session sid
AssistantAppended(sid) ==
    LET before == sessions[sid].turns
        after == sessions'[sid].turns
    IN  /\ Len(after) = Len(before) + 1
        /\ SubSeq(after, 1, Len(before)) = before
        /\ after[Len(after)].role = "assistant"

\* C22: after every step the language preference of each session that has
\* a user turn is the language tag of its most recent user turn, and a step
\* that appends an assistant turn to a session leaves its language
\* preference, its current emotion and its emotion trajectory as they were.
C22_PreferenceIsLatestUserLanguage ==
    [][/\ PreferenceFollowsUser(sessions')
       /\ \A sid \in DOMAIN sessions \cap DOMAIN sessions' :
             AssistantAppended(sid) =>
                 /\ sessions'[sid].language_preference =
                        sessions[sid].language_preference
                 /\ sessions'[sid].current_emotion =
                        sessions[sid].current_emotion
                 /\ sessions'[sid].emotion_trajectory =
                        sessions[sid].emotion_trajectory]_vars

\* a session holds two user turns in different languages, then an assistant
\* turn, and its preference is the language of the second user turn while
\* its current emotion is not the tag of the assistant turn
C22_Witness ==
    \E sid \in DOMAIN sessions :
        LET session == sessions[sid]
            turns == session.turns
            user == UserTurns(session)
            n == Len(turns)
        IN  /\ Len(user) = 2
            /\ n >= 3
            /\ turns[n].role = "assistant"
            /\ user[1].language # user[2].language
            /\ session.language_preference = user[2].language
            /\ session.current_emotion # turns[n].emotion

\* C31: a process_message whose session was closed while it was suspended
\* in the generation call, and whose session is still absent from the store
\* when it resumes, does not bring the session back into the store by
\* recording its assistant turn.
C31_ClosedStaysAbsent ==
    [][\A r \in Reqs :
          (/\ req[r].pc = "awaiting"
           /\ req'[r].pc = "done"
           /\ req[r].closed
           /\ req[r].session_id # ""
           /\ req[r].session_id \notin DOMAIN sessions) =>
              req[r].session_id \notin DOMAIN sessions']_vars

\* the invocation r has built the messages and not yet issued the
\* generation call: the store is as add_turn of the user turn left it
ContextBuilt(r) == req[r].pc = "context_built"

\* the sessions whose latest turn is the user turn the invocation r recorded
RecordedIn(r) ==
    {k \in DOMAIN sessions :
        LET turns == sessions[k].turns
        IN  /\ turns # << >>
            /\ turns[Len(turns)].role = "user"
            /\ turns[Len(turns)].content = req[r].text
            /\ turn_owner[k][Len(turns)] = r}

\* the opening script in the language of the turn, as a message
OpeningOf(r) == Message("assistant", get_opening_script(req[r].language))

\* the contents of the opening scripts
OpeningTexts == {OPENING_SCRIPTS[l] : l \in DOMAIN OPENING_SCRIPTS}

\* C33: on the non-crisis path the opening script in the language of the
\* turn stands before the history in the messages given to generation
\* exactly if the session the user turn was recorded in holds one user turn
\* (the current one), and no stored turn of any session is an opening
\* script.
C33_OpeningOnFirstUserTurn ==
    /\ \A r \in Reqs :
          ContextBuilt(r) =>
              LET messages == req[r].messages
                  first == \E k \in RecordedIn(r) :
                               Len(UserTurns(sessions[k])) = 1
              IN  /\ (Len(messages) >= 2 /\ messages[2] = OpeningOf(r)) <=> first
                  /\ \A i \in 3..Len(messages) : messages[i] # OpeningOf(r)
    /\ \A k \in DOMAIN sessions :
          \A i \in DOMAIN sessions[k].turns :
              sessions[k].turns[i].content \notin OpeningTexts

\* the invocation r has built the messages for the generation call
MessagesBuilt(r) ==
    req[r].pc \in {"context_built", "awaiting"}
        \/ (Returned(r) /\ ~Crisis(r))

\* the language instruction for language l, as a message
InstructionOf(l) ==
    Message("system", "Language instruction for this turn: "
                      \o get_language_instruction(l))

\* C34: the messages of a WARNING turn hold the helpline-awareness
\* directive and the turn issues the generation call; the messages of a
\* SAFE turn do not hold the directive; the messages of both hold the
\* language instruction of the resolved language and of no other language.
C34_WarningDirective ==
    \A r \in Reqs :
        MessagesBuilt(r) =>
            LET messages == Range(req[r].messages)
                level == req[r].safety[1].level
            IN  /\ level \in {"safe", "warning"}
                /\ level = "warning" <=>
                       Message("system", WARNING_DIRECTIVE) \in messages
                /\ InstructionOf(req[r].language) \in messages
                /\ \A l \in Language :
                      InstructionOf(l) \in messages =>
                          InstructionOf(l) = InstructionOf(req[r].language)
                /\ Returned(r) => req[r].llm_calls = 1

\* a WARNING turn resolved to Hindi or Hinglish has returned after one
\* generation call whose messages held the directive
C34_Witness ==
    \E r \in Reqs :
        /\ Returned(r)
        /\ req[r].text = "nothing matters"
        /\ req[r].safety[1].level = "warning"
        /\ req[r].llm_calls = 1
        /\ req[r].llm_outcome = "returned"
        /\ Message("system", WARNING_DIRECTIVE) \in Range(req[r].messages)
        /\ \E q \in Reqs :
              /\ MessagesBuilt(q)
              /\ req[q].safety[1].level = "safe"
              /\ req[q].language # "en"

\* the history in the messages of the invocation r: the messages that are
\* not directives, without the opening script before them
HistoryGiven(r) ==
    LET spoken == SelectSeq(req[r].messages,
                            LAMBDA message : message.role # "system")
    IN  IF spoken # << >> /\ spoken[1] = OpeningOf(r) /\ req[r].messages[2] = OpeningOf(r)
        THEN Tail(spoken) ELSE spoken

\* C35: on the non-crisis path the history given to the generation call
\* ends with the user message of the turn itself, whatever other
\* invocations of process_message run on the same session.
C35_HistoryEndsWithOwnMessage ==
    \A r \in Reqs :
        MessagesBuilt(r) =>
            LET history == HistoryGiven(r)
            IN  /\ history # << >>
                /\ history[Len(history)] = Message("user", req[r].text)

(***************************************************************************)
(* Direct calls of the classifiers and of the store.  A call is drawn with *)
(* its arguments in the initial state and the function is applied to it.   *)
(***************************************************************************)
\* the uppercase letter of each lowercase letter
UpperOf ==
    [c \in CharsOf(LOWER) |->
        Char(UPPER, CHOOSE i \in 1..Len(LOWER) : Char(LOWER, i) = c)]

RECURSIVE upper(_)
upper(s) ==
    IF s = "" THEN ""
    ELSE (IF Char(s, 1) \in DOMAIN UpperOf THEN UpperOf[Char(s, 1)]
          ELSE Char(s, 1)) \o upper(Rest(s))

\* s with every blank widened to a run of whitespace
RECURSIVE spread(_)
spread(s) ==
    IF s = "" THEN ""
    ELSE (IF Char(s, 1) = " " THEN " \t\n " ELSE Char(s, 1)) \o spread(Rest(s))

\* the keyword lists of server/safety.py by name
KeywordLists ==
    [crisis_en |-> CRISIS_KEYWORDS_EN, crisis_hi |-> CRISIS_KEYWORDS_HI,
     warning_en |-> WARNING_KEYWORDS_EN, warning_hi |-> WARNING_KEYWORDS_HI]

\* the ways a phrase is put into a text: as it is, in capitals inside a
\* sentence, and with its blanks widened and whitespace around it
Forms == {"plain", "capitals", "spread"}

PhraseText(phrase, form) ==
    CASE form = "plain" -> phrase
      [] form = "capitals" -> "Sometimes I think, " \o upper(phrase) \o "."
      [] form = "spread" -> "  " \o spread(phrase) \o "  "

\* values of the parameter "language" of check_safety: the three codes and
\* a code that is none of them
DeclaredLanguages == {"en", "hi", "hi-en", "ta"}

\* a call: the function, its text argument, its second argument, and how
\* the text was made (origin, and the phrases put into it); max_turns is
\* read by get_history only, silence_seconds by get_silence_response only;
\* hindi_count and total_words tell what a text made of tokens holds
Call(fn, text, arg, origin, phrases) ==
    [fn |-> fn, text |-> text, arg |-> arg, origin |-> origin,
     phrases |-> phrases, max_turns |-> 0, silence_seconds |-> 0,
     hindi_count |-> 0, total_words |-> 0]

\* check_safety on a text holding one phrase of one list
PhraseCalls ==
    UNION { { Call("check_safety", PhraseText(KeywordLists[o][i], f),
                   language, o, << KeywordLists[o][i] >>) :
                i \in DOMAIN KeywordLists[o], f \in Forms,
                language \in DeclaredLanguages } :
            o \in DOMAIN KeywordLists }

\* crisis phrases that texts holding two phrases are made of
MixedCrisisPhrases == {"kill myself", "khudkushi"}

\* check_safety on a text holding a crisis phrase and a warning phrase, in
\* either order
MixedCalls ==
    UNION { { Call("check_safety", text, language, "mixed", << c, w >>) :
                text \in {c \o ", " \o w, upper(w) \o " and " \o c},
                language \in DeclaredLanguages } :
            c \in MixedCrisisPhrases,
            w \in Range(WARNING_KEYWORDS_EN) \cup Range(WARNING_KEYWORDS_HI) }

\* texts holding no phrase of any list
PlainTexts ==
    {"", "   ", " \t\n", "hello", "I had a good day at work",
     "Aaj ka din achha tha", "my project is killing it"}

PlainCalls ==
    { Call("check_safety", text, language, "plain", << >>) :
        text \in PlainTexts, language \in DeclaredLanguages }

\* values of the parameter stt_tag of detect_language, each with the
\* language its code stands for ("": the tag is empty or no known code)
Hints ==
    { << "en", "en" >>, << "EN", "en" >>, << "english", "en" >>,
      << " English ", "en" >>, << "hi", "hi" >>, << "Hindi", "hi" >>,
      << "hindi\n", "hi" >>, << "hi-en", "hi-en" >>, << "HI-EN", "hi-en" >>,
      << "hinglish", "hi-en" >>, << "\thi-eng ", "hi-en" >>,
      << "", "" >>, << " ", "" >>, << "fr", "" >>, << "en-IN", "" >>,
      << "hin", "" >> }

\* texts for detect_language, each with the rule that decides it when the
\* tag does not and the language that rule gives
LanguageTexts ==
    { << "", "empty", "en" >>,
      << "  \n", "empty", "en" >>,
      << "@# bahut tension hai", "devanagari", "hi" >>,
      << "yaar I am @#", "devanagari", "hi" >>,
      << "yaar I am so tired", "mixing", "hi-en" >>,
      << "main bahut tired hoon yaar but kya karna hai", "mixing", "hi-en" >>,
      << "I feel anxiety, sab theek nahi hai", "mixing", "hi-en" >>,
      << "main theek nahi hoon", "ratio", "hi" >>,
      << "Mujhe neend nahi aa rahi", "ratio", "hi-en" >>,
      << "nahi no", "ratio", "hi-en" >>,
      << "nahi, this cannot happen now", "ratio", "en" >>,
      << "I am fine today", "ratio", "en" >> }

\* detect_language on each text under each tag
LanguageCalls ==
    { Call("detect_language", t[1], h[1], t[2], << t[3], h[2] >>) :
        t \in LanguageTexts, h \in Hints }

\* the most whitespace-separated tokens of a text made of tokens
MaxTokens == 10

\* tokens that are words of HINDI_ROMANIZED_WORDS once lowercased and
\* stripped of punctuation, and tokens that are not; none is a word of a
\* code-mixing pattern
HindiTokens == << "ghar", "Dil,", "dost", "zindagi!", "kaam" >>

EnglishTokens == << "table", "window", "Green.", "river", "seven" >>

\* n tokens taken from the list in turn
TokensOf(list, n) == [i \in 1..n |-> list[((i - 1) % Len(list)) + 1]]

\* the texts of t tokens of which h are Hindi words: the Hindi words first,
\* or last
TokenTexts(h, t) ==
    { join(" ", TokensOf(HindiTokens, h) \o TokensOf(EnglishTokens, t - h)),
      join("  ", TokensOf(EnglishTokens, t - h) \o TokensOf(HindiTokens, h)) }

\* the language the ratio rule of lines 125-138 gives for h of t
RatioLanguage(h, t) ==
    IF 2 * h > t THEN "hi" ELSE IF 5 * h > t THEN "hi-en" ELSE "en"

\* detect_language on each text of 1..MaxTokens tokens, under a tag that is
\* empty or no known code
TokenCalls ==
    UNION { UNION { { [Call("detect_language", text, tag, "tokens",
                            << RatioLanguage(h, t), "" >>)
                       EXCEPT !.hindi_count = h, !.total_words = t] :
                        text \in TokenTexts(h, t), tag \in {"", "fr"} } :
                    h \in 0..t } :
            t \in 1..MaxTokens }

\* the longest history appended before get_history is called
MaxHistory == 4

\* the contents appended, oldest first
HistoryContents == << "t1", "t2", "t3", "t4" >>

\* the role of the i-th turn appended: the user speaks first and the
\* assistant answers
HistoryRole(i) == IF i % 2 = 1 THEN "user" ELSE "assistant"

\* get_history(session_id, max_turns) on a session to which the first n
\* contents have been appended; text is the session ID, phrases the
\* contents
HistoryCalls ==
    { [Call("get_history", "s1", "", "history", SubSeq(HistoryContents, 1, n))
           EXCEPT !.max_turns = k] :
        n \in 1..MaxHistory, k \in 0..(MaxHistory + 1) }

\* silence durations, in seconds, around every threshold
SilenceSeconds == {-1, 0, 4, 5, 6, 10, 11, 15, 16, 20, 21, 30}

\* get_silence_response(silence_seconds, language); arg is the language
SilenceCalls ==
    { [Call("get_silence_response", "", language, "silence", << >>)
           EXCEPT !.silence_seconds = seconds] :
        seconds \in SilenceSeconds, language \in DeclaredLanguages }

\* the language codes synthesize_auto is called with
SynthesisHints == {"en", " English ", "hi", "hinglish", "", "fr"}

\* synthesize_auto(text, language) on each text under some of the tags
SynthesisCalls ==
    { Call("synthesize_auto", t[1], h[1], t[2], << t[3], h[2] >>) :
        t \in LanguageTexts, h \in {g \in Hints : g[1] \in SynthesisHints} }

\* what audio.speech.create can do: raise, or answer with a content
OpenaiOutcomes ==
    { [raised |-> TRUE, content |-> ""],
      [raised |-> FALSE, content |-> "mp3"],
      [raised |-> FALSE, content |-> ""] }

\* what the POST to Sarvam can do: raise, or answer with a status and a
\* list "audios"
SarvamOutcomes ==
    { [raised |-> TRUE, status_code |-> 0, audios |-> << >>],
      [raised |-> FALSE, status_code |-> 200, audios |-> << "d2F2" >>],
      [raised |-> FALSE, status_code |-> 200, audios |-> << >>],
      [raised |-> FALSE, status_code |-> 200, audios |-> << "" >>],
      [raised |-> FALSE, status_code |-> 500, audios |-> << "d2F2" >>] }

\* the longest emotion trajectory summarized
MaxTrajectory == 4

\* the tags the trajectories are made of
TrajectoryTags == {"sad", "anxious", "angry", "neutral", "positive"}

\* get_emotion_trajectory_summary(trajectory); phrases is the trajectory
TrajectoryCalls ==
    UNION { { Call("get_emotion_trajectory_summary", "", "", "trajectory", t) :
                t \in [1..n -> TrajectoryTags] } : n \in 0..MaxTrajectory }

\* get_context_summary(session_id) on a session created under the ID text,
\* with the crisis flag set if arg is "crisis", to which one user turn was
\* added for each tag of the trajectory phrases
SummaryCalls ==
    UNION { { Call("get_context_summary", "s1", flag, "summary", t) :
                t \in [1..n -> TrajectoryTags], flag \in {"crisis", ""} } :
            n \in 0..MaxTrajectory }

\* the word lists of detect_emotion_sync in the order it reads them, each
\* with its tag
EmotionLists ==
    << << "anxious", anxious_words >>, << "sad", sad_words >>,
       << "angry", angry_words >>, << "frustrated", frustrated_words >>,
       << "positive", positive_words >> >>

\* texts holding no word of any list; "" is also the text that is None,
\* which "if not text" treats alike
WordlessTexts == {"", "   ", "hello", "HELLO there", "Just checking in"}

\* detect_emotion_sync on a text holding one word of one list, on a text
\* holding words of two lists in either order, and on a text holding none;
\* arg is the tag of the earliest list a word was taken from
EmotionCalls ==
    UNION { UNION { { Call("detect_emotion_sync", text, EmotionLists[k][1],
                           "words", << EmotionLists[k][2][i] >>) :
                        text \in { EmotionLists[k][2][i],
                                   "Yes, " \o upper(EmotionLists[k][2][i])
                                       \o "!" } } :
                    i \in DOMAIN EmotionLists[k][2] } :
            k \in DOMAIN EmotionLists }
    \cup
    UNION { UNION { { Call("detect_emotion_sync", text, EmotionLists[p[1]][1],
                           "words", << w, v >>) :
                        text \in { w \o " but " \o upper(v),
                                   upper(v) \o " but " \o w } } :
                    w \in Range(EmotionLists[p[1]][2]),
                    v \in Range(EmotionLists[p[2]][2]) } :
            p \in { q \in (DOMAIN EmotionLists) \X (DOMAIN EmotionLists) :
                      q[1] < q[2] } }
    \cup
    { Call("detect_emotion_sync", text, "neutral", "wordless", << >>) :
        text \in WordlessTexts }

Calls ==
    TokenCalls \cup EmotionCalls \cup PhraseCalls \cup MixedCalls \cup PlainCalls \cup LanguageCalls
        \cup HistoryCalls \cup SilenceCalls \cup SynthesisCalls
        \cup TrajectoryCalls \cup SummaryCalls

InitFunctions ==
    /\ sessions = [k \in {} |-> SessionState(k, 0)]
    /\ clock = 0
    /\ uuids = 0
    /\ arrivals = 0
    /\ req = [r \in Reqs |-> IdleFrame]
    /\ running = 0
    /\ turn_owner = [k \in {} |-> << >>]
    /\ last_sweep = {}
    /\ call \in {Some(c) : c \in Calls}
    /\ ret = None

\* check_safety(text, language) is called and returns
CheckSafetyCall ==
    /\ call[1].fn = "check_safety"
    /\ ret = None
    /\ ret' = Some(check_safety(call[1].text, call[1].arg))
    /\ UNCHANGED << sessions, clock, uuids, arrivals, req, running, turn_owner,
                    last_sweep, call >>

\* detect_language(text, stt_tag) is called and returns
DetectLanguageCall ==
    /\ call[1].fn = "detect_language"
    /\ ret = None
    /\ ret' = Some(detect_language(call[1].text, call[1].arg))
    /\ UNCHANGED << sessions, clock, uuids, arrivals, req, running, turn_owner,
                    last_sweep, call >>

\* the number of turns the session of the call holds
Appended ==
    IF call[1].text \in DOMAIN sessions
    THEN Len(sessions[call[1].text].turns) ELSE 0

\* add_turn(session_id, role, content) appends the next turn of the call
AddTurnCall ==
    /\ call[1].fn = "get_history"
    /\ ret = None
    /\ Appended < Len(call[1].phrases)
    /\ sessions' = add_turn(sessions, call[1].text, HistoryRole(Appended + 1),
                            call[1].phrases[Appended + 1], "neutral", "en",
                            uuid4(uuids + 1), clock)
    /\ UNCHANGED << clock, uuids, arrivals, req, running, turn_owner,
                    last_sweep, call, ret >>

\* get_history(session_id, max_turns) is called once every turn is
\* appended, and returns
GetHistoryCall ==
    /\ call[1].fn = "get_history"
    /\ ret = None
    /\ Appended = Len(call[1].phrases)
    /\ ret' = Some(get_history(sessions, call[1].text, call[1].max_turns))
    /\ UNCHANGED << sessions, clock, uuids, arrivals, req, running, turn_owner,
                    last_sweep, call >>

\* get_silence_response(silence_seconds, language) is called and returns
GetSilenceResponseCall ==
    /\ call[1].fn = "get_silence_response"
    /\ ret = None
    /\ ret' = Some(get_silence_response(call[1].silence_seconds, call[1].arg))
    /\ UNCHANGED << sessions, clock, uuids, arrivals, req, running, turn_owner,
                    last_sweep, call >>

\* the frame of synthesize_auto: its position, the backends it has invoked
\* in order, the audio each returned, and the audio it returns
SynthesisFrame(pc, invoked, returned, audio) ==
    [pc |-> pc, invoked |-> invoked, returned |-> returned, audio |-> audio]

\* synthesize_auto(text, language) runs up to its first await, or returns
\* b"" for an empty text
SynthesizeAutoCall ==
    LET text == call[1].text
        lang == detect_language(text, call[1].arg)
        pipeline == get_tts_pipeline(lang)
    IN  /\ call[1].fn = "synthesize_auto"
        /\ ret = None
        /\ ret' = IF text = "" \/ strip(text) = ""
                  THEN Some(SynthesisFrame("done", << >>, << >>, ""))
                  ELSE Some(SynthesisFrame("awaiting", << pipeline >>, << >>, ""))
        /\ UNCHANGED << sessions, clock, uuids, arrivals, req, running,
                        turn_owner, last_sweep, call >>

\* the backend awaited returns audio: synthesize_auto falls back to the
\* other backend if this was the first one and the audio is empty, and
\* returns the audio otherwise
BackendReturns(backend, audio) ==
    LET f == ret[1]
    IN  /\ call[1].fn = "synthesize_auto"
        /\ ret # None
        /\ f.pc = "awaiting"
        /\ f.invoked[Len(f.invoked)] = backend
        /\ ret' = IF audio = "" /\ Len(f.invoked) = 1
                  THEN Some(SynthesisFrame("awaiting",
                                Append(f.invoked, OtherPipeline(backend)),
                                Append(f.returned, audio), ""))
                  ELSE Some(SynthesisFrame("done", f.invoked,
                                Append(f.returned, audio), audio))
        /\ UNCHANGED << sessions, clock, uuids, arrivals, req, running,
                        turn_owner, last_sweep, call >>

SynthesizeOpenaiReturns(outcome) ==
    BackendReturns("openai", synthesize_openai(outcome))

SynthesizeSarvamReturns(outcome) ==
    BackendReturns("sarvam", synthesize_sarvam(outcome))

\* get_emotion_trajectory_summary(trajectory) is called and returns
GetEmotionTrajectorySummaryCall ==
    /\ call[1].fn = "get_emotion_trajectory_summary"
    /\ ret = None
    /\ ret' = Some(get_emotion_trajectory_summary(call[1].phrases))
    /\ UNCHANGED << sessions, clock, uuids, arrivals, req, running, turn_owner,
                    last_sweep, call >>

\* create_session(session_id) and set_crisis_flag(session_id, is_crisis)
\* prepare the session of a get_context_summary call
SummarySessionCall ==
    /\ call[1].fn = "get_context_summary"
    /\ ret = None
    /\ call[1].text \notin DOMAIN sessions
    /\ sessions' = set_crisis_flag(
                       create_session(sessions, call[1].text, uuid4(uuids + 1),
                                      clock),
                       call[1].text, call[1].arg = "crisis")
    /\ UNCHANGED << clock, uuids, arrivals, req, running, turn_owner,
                    last_sweep, call, ret >>

\* add_turn(session_id, "user", "m", emotion) records the next tag of the
\* trajectory of a get_context_summary call
SummaryTurnCall ==
    /\ call[1].fn = "get_context_summary"
    /\ ret = None
    /\ call[1].text \in DOMAIN sessions
    /\ Appended < Len(call[1].phrases)
    /\ sessions' = add_turn(sessions, call[1].text, "user", "m",
                            call[1].phrases[Appended + 1], "en",
                            uuid4(uuids + 1), clock)
    /\ UNCHANGED << clock, uuids, arrivals, req, running, turn_owner,
                    last_sweep, call, ret >>

\* get_context_summary(session_id) is called once the session is prepared,
\* and returns
GetContextSummaryCall ==
    /\ call[1].fn = "get_context_summary"
    /\ ret = None
    /\ call[1].text \in DOMAIN sessions
    /\ Appended = Len(call[1].phrases)
    /\ ret' = Some(get_context_summary(sessions, call[1].text))
    /\ UNCHANGED << sessions, clock, uuids, arrivals, req, running, turn_owner,
                    last_sweep, call >>

\* detect_emotion_sync(text) is called and returns
DetectEmotionSyncCall ==
    /\ call[1].fn = "detect_emotion_sync"
    /\ ret = None
    /\ ret' = Some(detect_emotion_sync(call[1].text))
    /\ UNCHANGED << sessions, clock, uuids, arrivals, req, running, turn_owner,
                    last_sweep, call >>

NextFunctions ==
    \/ DetectEmotionSyncCall
    \/ SummarySessionCall
    \/ SummaryTurnCall
    \/ GetContextSummaryCall
    \/ GetEmotionTrajectorySummaryCall
    \/ SynthesizeAutoCall
    \/ \E outcome \in OpenaiOutcomes : SynthesizeOpenaiReturns(outcome)
    \/ \E outcome \in SarvamOutcomes : SynthesizeSarvamReturns(outcome)
    \/ CheckSafetyCall
    \/ DetectLanguageCall
    \/ AddTurnCall
    \/ GetHistoryCall
    \/ GetSilenceResponseCall

SpecFunctions == InitFunctions /\ [][NextFunctions]_vars

\* the value check_safety returned to the call
Checked == call # None /\ call[1].fn = "check_safety" /\ ret # None

\* C12: check_safety called on a text that holds a phrase of the English or
\* of the Hindi crisis list (as it is, in capitals, or with its whitespace
\* widened), with any declared language, returns level CRISIS and a
\* matched-keyword list that is not empty and holds that phrase.
C12_CrisisPhraseDetected ==
    (Checked /\ call[1].origin \in {"crisis_en", "crisis_hi"}) =>
        /\ ret[1].level = "crisis"
        /\ ret[1].matched_keywords # << >>
        /\ call[1].phrases[1] \in Range(ret[1].matched_keywords)

\* check_safety has returned for a Hindi-list crisis phrase written in
\* capitals and declared as English
C12_Witness ==
    /\ Checked
    /\ call[1].origin = "crisis_hi"
    /\ call[1].arg = "en"
    /\ call[1].text = PhraseText(call[1].phrases[1], "capitals")
    /\ ret[1].level = "crisis"

CrisisPhrases == Range(CRISIS_KEYWORDS_EN) \cup Range(CRISIS_KEYWORDS_HI)

WarningPhrases == Range(WARNING_KEYWORDS_EN) \cup Range(WARNING_KEYWORDS_HI)

\* C13: check_safety called on a text that holds a crisis phrase and a
\* warning phrase returns level CRISIS, and every keyword of its
\* matched-keyword list is a phrase of a crisis list.
C13_CrisisDominatesWarning ==
    (Checked /\ call[1].origin = "mixed") =>
        /\ ret[1].level = "crisis"
        /\ ret[1].matched_keywords # << >>
        /\ Range(ret[1].matched_keywords) \subseteq CrisisPhrases
        /\ call[1].phrases[2] \notin Range(ret[1].matched_keywords)

\* check_safety has returned CRISIS for a text that starts with a warning
\* phrase and ends with a crisis phrase
C13_Witness ==
    /\ Checked
    /\ call[1].origin = "mixed"
    /\ call[1].phrases[2] \in WarningPhrases
    /\ call[1].text = upper(call[1].phrases[2]) \o " and " \o call[1].phrases[1]
    /\ ret[1].level = "crisis"

\* C14: in every result of check_safety the response text is present
\* exactly when the level is not SAFE, and so is the helpline directory; a
\* SAFE result has an empty matched-keyword list, and empty or
\* whitespace-only text gives SAFE.
C14_ResponseIffNotSafe ==
    Checked =>
        /\ ret[1].level \in SafetyLevel
        /\ (ret[1].crisis_response # None) <=> (ret[1].level # "safe")
        /\ (ret[1].helplines # None) <=> (ret[1].level # "safe")
        /\ ret[1].level # "safe" => ret[1].helplines = Some(HELPLINES)
        /\ ret[1].level = "safe" => ret[1].matched_keywords = << >>
        /\ strip(call[1].text) = "" => ret[1].level = "safe"

\* check_safety has returned SAFE, without response and helplines, for a
\* text of whitespace only
C14_Witness ==
    /\ Checked
    /\ call[1].text = " \t\n"
    /\ ret[1].level = "safe"
    /\ ret[1].crisis_response = None
    /\ ret[1].helplines = None

\* the keywords of the result that are phrases of a Hindi list of its tier
HindiMatches ==
    Range(ret[1].matched_keywords)
        \cap (IF ret[1].level = "crisis" THEN Range(CRISIS_KEYWORDS_HI)
              ELSE Range(WARNING_KEYWORDS_HI))

\* C15: a CRISIS or WARNING result of check_safety carries the Hindi script
\* of its tier when the declared language is hi or hi-en or a keyword of
\* the Hindi list of the tier matched, and the English script of its tier
\* otherwise.
C15_ScriptSelection ==
    (Checked /\ ret[1].level # "safe") =>
        ret[1].crisis_response =
            Some(IF call[1].arg \in {"hi", "hi-en"} \/ HindiMatches # {}
                 THEN (IF ret[1].level = "crisis" THEN CRISIS_RESPONSE_HI
                       ELSE WARNING_RESPONSE_HI)
                 ELSE (IF ret[1].level = "crisis" THEN CRISIS_RESPONSE_EN
                       ELSE WARNING_RESPONSE_EN))

\* check_safety has returned the Hindi advisory for a Hindi-list warning
\* phrase declared as English
C15_Witness ==
    /\ Checked
    /\ call[1].origin = "warning_hi"
    /\ call[1].arg = "en"
    /\ ret[1].level = "warning"
    /\ ret[1].crisis_response = Some(WARNING_RESPONSE_HI)

\* the value detect_language returned to the call
Detected == call # None /\ call[1].fn = "detect_language" /\ ret # None

\* C17: detect_language called with a tag that is, once lowercased and
\* trimmed, a known code returns the language of that code, whatever the
\* text is (empty, Devanagari, code-mixed or English).
C17_KnownHintDecides ==
    (Detected /\ call[1].phrases[2] # "") => ret[1] = call[1].phrases[2]

\* detect_language has returned English for a Devanagari text tagged
\* " English "
C17_Witness ==
    /\ Detected
    /\ call[1].origin = "devanagari"
    /\ call[1].arg = " English "
    /\ ret[1] = "en"

\* C18: detect_language called with a tag that is empty or no known code
\* decides by the text, first rule first: empty or whitespace-only text
\* gives English; else a Devanagari character gives Hindi, also when a
\* code-mixing pattern matches; else a code-mixing pattern gives Hinglish,
\* whatever the share of romanized Hindi words; else the share decides.
C18_TextRulesInOrder ==
    (Detected /\ call[1].phrases[2] = "") =>
        /\ ret[1] = call[1].phrases[1]
        /\ call[1].origin = "empty" => ret[1] = "en"
        /\ call[1].origin = "devanagari" => ret[1] = "hi"
        /\ call[1].origin = "mixing" => ret[1] = "hi-en"

\* detect_language has returned Hindi for an untagged text that holds a
\* Devanagari character and matches a code-mixing pattern
C18_Witness ==
    /\ Detected
    /\ call[1].arg = ""
    /\ call[1].text = "yaar I am @#"
    /\ is_hinglish(call[1].text)
    /\ ret[1] = "hi"

\* the value get_history returned to the call
HistoryRead == call # None /\ call[1].fn = "get_history" /\ ret # None

\* C20: get_history(session, max_turns = k) on a session holding N turns,
\* for 0 <= k < N, returns exactly k role/content pairs, which are the k
\* turns appended last, oldest first, and the session still holds the N
\* turns as they were appended.
C20_HistoryLastK ==
    (HistoryRead /\ call[1].max_turns < Len(call[1].phrases)) =>
        LET k == call[1].max_turns
            N == Len(call[1].phrases)
            turns == sessions[call[1].text].turns
        IN  /\ Len(ret[1]) = k
            /\ \A i \in 1..k :
                  ret[1][i] = [role |-> HistoryRole(N - k + i),
                               content |-> call[1].phrases[N - k + i]]
            /\ Len(turns) = N
            /\ \A i \in 1..N :
                  /\ turns[i].role = HistoryRole(i)
                  /\ turns[i].content = call[1].phrases[i]

(***************************************************************************)
(* Direct calls of the session store.  The operations of                   *)
(* ConversationManager are called in any order on a store that starts      *)
(* empty; ret holds the last call: the operation, its arguments, the store *)
(* before it and the value it returned.                                    *)
(***************************************************************************)
\* the session IDs the store is called with
StoreIds == {"s1", "s2"}

\* the session IDs add_turn is called with; "" is the ID the webhook
\* passes for a call without one
TurnIds == {"s1", ""}

\* the turns a session takes before no more are added to it
MaxStoreTurns == 2

\* values drawn from uuid.uuid4() by the calls on the store
MaxStoreUuids == 1

\* the (role, emotion, language) of the turns added
StoreTurns ==
    { << "user", "sad", "hi" >>, << "user", "neutral", "en" >>,
      << "assistant", "neutral", "hi" >> }

\* max_turns of get_history: the default and a short window
StoreWindows == {20, 1}

\* at is the time of the call
Returns(op, session_id, arg, before, value) ==
    [op |-> op, session_id |-> session_id, arg |-> arg, before |-> before,
     value |-> value, at |-> clock]

InitStore ==
    /\ sessions = [k \in {} |-> SessionState(k, 0)]
    /\ clock = 0
    /\ uuids = 0
    /\ arrivals = 0
    /\ req = [r \in Reqs |-> IdleFrame]
    /\ running = 0
    /\ turn_owner = [k \in {} |-> << >>]
    /\ last_sweep = {}
    /\ call = None
    /\ ret = None

\* create_session(session_id); "" is the call without an ID
CreateSessionOp(session_id) ==
    LET sid == create_session_id(session_id, uuid4(uuids + 1))
    IN  /\ uuids + Drawn(session_id, 1) <= MaxIssued
        /\ uuids' = uuids + Drawn(session_id, 1)
        /\ sessions' = create_session(sessions, session_id, uuid4(uuids + 1), clock)
        /\ ret' = Some(Returns("create_session", session_id, "", sessions,
                               sessions'[sid]))
        /\ UNCHANGED << clock, arrivals, req, running, turn_owner, last_sweep, call >>

\* get_session(session_id)
GetSessionOp(session_id) ==
    /\ ret' = Some(Returns("get_session", session_id, "", sessions,
                           get_session(sessions, session_id)))
    /\ UNCHANGED << sessions, clock, uuids, arrivals, req, running, turn_owner,
                    last_sweep, call >>

\* get_or_create_session(session_id)
GetOrCreateSessionOp(session_id) ==
    LET sid == get_or_create_session_id(sessions, session_id, uuid4(uuids + 1))
    IN  /\ session_id # ""
        /\ sessions' = get_or_create_session(sessions, session_id,
                                             uuid4(uuids + 1), clock)
        /\ ret' = Some(Returns("get_or_create_session", session_id, "", sessions,
                               sessions'[sid]))
        /\ UNCHANGED << clock, uuids, arrivals, req, running, turn_owner,
                        last_sweep, call >>

\* add_turn(session_id, role, "m", emotion, language)
AddTurnOp(session_id, turn) ==
    LET sid == get_or_create_session_id(sessions, session_id, uuid4(uuids + 1))
    IN  /\ session_id \in DOMAIN sessions =>
              Len(sessions[session_id].turns) < MaxStoreTurns
        /\ uuids + Drawn(session_id, 1) <= MaxStoreUuids
        /\ uuids' = uuids + Drawn(session_id, 1)
        /\ sessions' = add_turn(sessions, session_id, turn[1], "m", turn[2],
                                turn[3], uuid4(uuids + 1), clock)
        /\ ret' = Some(Returns("add_turn", session_id, turn, sessions,
                               sessions'[sid]))
        /\ UNCHANGED << clock, arrivals, req, running, turn_owner,
                        last_sweep, call >>

\* get_history(session_id, max_turns)
GetHistoryOp(session_id, max_turns) ==
    /\ ret' = Some(Returns("get_history", session_id, max_turns, sessions,
                           get_history(sessions, session_id, max_turns)))
    /\ UNCHANGED << sessions, clock, uuids, arrivals, req, running, turn_owner,
                    last_sweep, call >>

\* get_emotion_trajectory(session_id)
GetEmotionTrajectoryOp(session_id) ==
    /\ ret' = Some(Returns("get_emotion_trajectory", session_id, "", sessions,
                           get_emotion_trajectory(sessions, session_id)))
    /\ UNCHANGED << sessions, clock, uuids, arrivals, req, running, turn_owner,
                    last_sweep, call >>

\* set_crisis_flag(session_id, is_crisis); it returns None
SetCrisisFlagOp(session_id, is_crisis) ==
    /\ sessions' = set_crisis_flag(sessions, session_id, is_crisis)
    /\ ret' = Some(Returns("set_crisis_flag", session_id, is_crisis, sessions,
                           None))
    /\ UNCHANGED << clock, uuids, arrivals, req, running, turn_owner,
                    last_sweep, call >>

\* get_context_summary(session_id)
GetContextSummaryOp(session_id) ==
    /\ ret' = Some(Returns("get_context_summary", session_id, "", sessions,
                           get_context_summary(sessions, session_id)))
    /\ UNCHANGED << sessions, clock, uuids, arrivals, req, running, turn_owner,
                    last_sweep, call >>

\* close_session(session_id)
CloseSessionOp(session_id) ==
    /\ sessions' = close_session(sessions, session_id)
    /\ \E summary \in close_session_summaries(sessions, session_id) :
          ret' = Some(Returns("close_session", session_id, "", sessions, summary))
    /\ UNCHANGED << clock, uuids, arrivals, req, running, turn_owner,
                    last_sweep, call >>

\* cleanup_stale_sessions(max_age_minutes)
CleanupStaleSessionsOp(max_age_minutes) ==
    /\ sessions' = cleanup_stale_sessions(sessions, max_age_minutes, clock)
    /\ ret' = Some(Returns("cleanup_stale_sessions", "", max_age_minutes,
                           sessions,
                           cleanup_stale_sessions_count(sessions,
                                                        max_age_minutes, clock)))
    /\ UNCHANGED << clock, uuids, arrivals, req, running, turn_owner,
                    last_sweep, call >>

\* time passes between two calls
StoreTick ==
    /\ clock < MaxTicks * SecondsPerTick
    /\ clock' = clock + SecondsPerTick
    /\ UNCHANGED << sessions, uuids, arrivals, req, running, turn_owner,
                    last_sweep, call, ret >>

NextStore ==
    \/ \E sid \in StoreIds \cup {""} : CreateSessionOp(sid)
    \/ \E sid \in StoreIds : GetSessionOp(sid)
    \/ \E sid \in StoreIds : GetOrCreateSessionOp(sid)
    \/ \E sid \in TurnIds, turn \in StoreTurns : AddTurnOp(sid, turn)
    \/ \E sid \in StoreIds, max_turns \in StoreWindows : GetHistoryOp(sid, max_turns)
    \/ \E sid \in StoreIds : GetEmotionTrajectoryOp(sid)
    \/ \E sid \in StoreIds, is_crisis \in BOOLEAN : SetCrisisFlagOp(sid, is_crisis)
    \/ \E sid \in StoreIds : GetContextSummaryOp(sid)
    \/ \E sid \in StoreIds : CloseSessionOp(sid)
    \/ \E max_age_minutes \in MaxAges : CleanupStaleSessionsOp(max_age_minutes)
    \/ StoreTick

SpecStore == InitStore /\ [][NextStore]_vars

\* the last call of the store was op
Called(op) == ret # None /\ ret[1].op = op

\* the last call named a session ID the store did not hold
UnknownId == ret # None /\ ret[1].session_id \notin DOMAIN ret[1].before

\* C23: get_or_create_session called with a non-empty ID under which a
\* session exists returns that session as it was (turns, trajectory, crisis
\* flag and timestamps included) and leaves the store, and so the number of
\* sessions, unchanged.
C23_GetOrCreateIdempotent ==
    (Called("get_or_create_session") /\ ~UnknownId) =>
        /\ ret[1].value = ret[1].before[ret[1].session_id]
        /\ sessions = ret[1].before
        /\ Cardinality(DOMAIN sessions) = Cardinality(DOMAIN ret[1].before)

\* get_or_create_session has returned an existing session that holds a turn
\* and the crisis flag and was last touched before the call
C23_Witness ==
    /\ Called("get_or_create_session")
    /\ ~UnknownId
    /\ ret[1].value.turns # << >>
    /\ ret[1].value.is_crisis
    /\ ret[1].value.last_activity < ret[1].at
    /\ Cardinality(DOMAIN sessions) = 2

\* C24: create_session called with an ID under which a session exists
\* returns the existing session and does not overwrite it: its turns, its
\* emotion trajectory, its crisis flag and its created-at are preserved.
C24_CreateIdempotent ==
    (Called("create_session") /\ ret[1].session_id # "" /\ ~UnknownId) =>
        LET existing == ret[1].before[ret[1].session_id]
            now == sessions[ret[1].session_id]
        IN  /\ ret[1].value = existing
            /\ now.turns = existing.turns
            /\ now.emotion_trajectory = existing.emotion_trajectory
            /\ now.is_crisis = existing.is_crisis
            /\ now.created_at = existing.created_at

\* the sessions of S1 other than sid are those of S, unchanged
OthersKept(S, S1, sid) ==
    /\ DOMAIN S1 \ {sid} = DOMAIN S \ {sid}
    /\ \A k \in DOMAIN S \ {sid} : S1[k] = S[k]

\* C25: close_session on a live session returns a summary and removes the
\* session; close_session on an unknown ID returns nothing and leaves the
\* store unchanged; get_session on an ID the store does not hold returns
\* nothing; and an ID that is not in the store comes into it only by a call
\* that creates it.
C25_CloseRemoves ==
    [][/\ (ret' # None /\ ret'[1].op = "close_session") =>
             LET sid == ret'[1].session_id
                 before == ret'[1].before
             IN  IF sid \in DOMAIN before
                 THEN /\ ret'[1].value # None
                      /\ sid \notin DOMAIN sessions'
                      /\ OthersKept(before, sessions', sid)
                 ELSE /\ ret'[1].value = None
                      /\ sessions' = before
       /\ (/\ ret' # None
           /\ ret'[1].op = "get_session"
           /\ ret'[1].session_id \notin DOMAIN sessions') =>
               ret'[1].value = None
       /\ \A sid \in DOMAIN sessions' \ DOMAIN sessions :
             /\ ret' # None
             /\ ret'[1].op \in {"create_session", "get_or_create_session",
                                "add_turn"}
             /\ ret'[1].session_id \in {sid, ""}]_vars

\* close_session has returned the summary of a session with a user turn,
\* the session is gone and another session is still there
C25_Witness ==
    /\ Called("close_session")
    /\ ~UnknownId
    /\ UserTurns(ret[1].before[ret[1].session_id]) # << >>
    /\ ret[1].value # None
    /\ ret[1].session_id \notin DOMAIN sessions
    /\ sessions # << >>

\* C26: on a session ID the store does not hold, get_session and
\* close_session return nothing, get_history and get_emotion_trajectory
\* return the empty list, get_context_summary returns the new-session text
\* and set_crisis_flag returns, each leaving the store as it was, and
\* add_turn creates a session (under the ID, or under a generated one when
\* the ID is empty) and appends the turn to it.
C26_UnknownIdNeverRaises ==
    UnknownId =>
        LET op == ret[1].op
            sid == ret[1].session_id
        IN  /\ op \in {"get_session", "close_session", "set_crisis_flag"} =>
                  ret[1].value = None /\ sessions = ret[1].before
            /\ op \in {"get_history", "get_emotion_trajectory"} =>
                  ret[1].value = << >> /\ sessions = ret[1].before
            /\ op = "get_context_summary" =>
                  /\ ret[1].value = "New session - no prior context."
                  /\ sessions = ret[1].before
            /\ op = "add_turn" =>
                  LET created == ret[1].value.session_id
                  IN  /\ sid # "" => created = sid
                      /\ created \notin DOMAIN ret[1].before
                      /\ DOMAIN sessions = DOMAIN ret[1].before \cup {created}
                      /\ Len(sessions[created].turns) = 1
                      /\ sessions[created].turns[1].role = ret[1].arg[1]
                      /\ \A k \in DOMAIN ret[1].before :
                            sessions[k] = ret[1].before[k]

\* set_crisis_flag has returned for an ID the store does not hold, while
\* the store holds another session
C26_Witness ==
    /\ Called("set_crisis_flag")
    /\ UnknownId
    /\ ret[1].arg = TRUE
    /\ ret[1].before # << >>
    /\ sessions = ret[1].before

\* C27: cleanup_stale_sessions(max_age_minutes) deletes exactly the sessions
\* whose last activity is more than max_age_minutes * 60 seconds old,
\* returns how many it deleted, and leaves every other session present and
\* unchanged.
C27_SweepDeletesExactlyStale ==
    Called("cleanup_stale_sessions") =>
        LET before == ret[1].before
            old == {sid \in DOMAIN before :
                       ret[1].at - before[sid].last_activity > ret[1].arg * 60}
        IN  /\ DOMAIN sessions = DOMAIN before \ old
            /\ ret[1].value = Cardinality(old)
            /\ \A sid \in DOMAIN sessions : sessions[sid] = before[sid]

\* the sweep has deleted one session and kept a younger one
C27_Witness ==
    /\ Called("cleanup_stale_sessions")
    /\ ret[1].value = 1
    /\ Cardinality(DOMAIN ret[1].before) = 2
    /\ Cardinality(DOMAIN sessions) = 1

\* the value get_silence_response returned to the call
Silenced == call # None /\ call[1].fn = "get_silence_response" /\ ret # None

Synthesizing == call # None /\ call[1].fn = "synthesize_auto" /\ ret # None

\* how often synthesize_auto has invoked the backend
Invocations(backend) ==
    Cardinality({i \in DOMAIN ret[1].invoked : ret[1].invoked[i] = backend})

\* C29: synthesize_auto on a text that is not empty invokes first, and
\* once, the backend of the language (OpenAI for English, Sarvam for Hindi
\* and Hinglish); it invokes the other backend, once, exactly if the first
\* returned empty audio; and what it returns is empty only if both returned
\* empty audio.  On an empty or whitespace-only text it invokes no backend.
C29_PreferredThenOther ==
    Synthesizing =>
        LET f == ret[1]
            language == IF call[1].phrases[2] # ""
                        THEN call[1].phrases[2] ELSE call[1].phrases[1]
            preferred == IF language = "en" THEN "openai" ELSE "sarvam"
            other == IF language = "en" THEN "sarvam" ELSE "openai"
        IN  IF call[1].origin = "empty"
            THEN f.pc = "done" /\ f.invoked = << >> /\ f.audio = ""
            ELSE /\ f.invoked[1] = preferred
                 /\ Invocations(preferred) = 1
                 /\ Invocations(other) <= 1
                 /\ Invocations(other) = 1 <=>
                        (f.returned # << >> /\ f.returned[1] = "")
                 /\ f.pc = "done" =>
                       /\ Len(f.returned) = Len(f.invoked)
                       /\ f.audio = f.returned[Len(f.returned)]
                       /\ f.audio = "" => f.returned = << "", "" >>

\* synthesize_auto has returned the audio of OpenAI for a Hinglish text
\* after Sarvam, invoked first, returned empty audio
C29_Witness ==
    /\ Synthesizing
    /\ call[1].text = "yaar I am so tired"
    /\ call[1].arg = ""
    /\ ret[1].pc = "done"
    /\ ret[1].invoked = << "sarvam", "openai" >>
    /\ ret[1].returned = << "", "mp3" >>
    /\ ret[1].audio = "mp3"

\* the value get_emotion_trajectory_summary returned to the call
Summarized ==
    /\ call # None
    /\ call[1].fn = "get_emotion_trajectory_summary"
    /\ ret # None

\* C30: get_emotion_trajectory_summary on a trajectory of two or more tags
\* describes its last three entries (both, if it has two) and adds one
\* remark, the first that applies: feeling better if the latest tag is
\* positive; else stabilizing if the latest is neutral and the one before is
\* sad or anxious; else consistently distressed if all three recent entries
\* are sad or anxious; else no remark.
C30_TrajectorySummaryPriority ==
    (Summarized /\ Len(call[1].phrases) >= 2) =>
        LET trajectory == call[1].phrases
            N == Len(trajectory)
            first == IF N >= 3 THEN N - 2 ELSE 1
            shown == IF N >= 3
                     THEN trajectory[N - 2] \o " -> " \o trajectory[N - 1]
                              \o " -> " \o trajectory[N]
                     ELSE trajectory[1] \o " -> " \o trajectory[2]
            distressed == {"sad", "anxious"}
            remark ==
                IF trajectory[N] = "positive"
                THEN " User seems to be feeling better."
                ELSE IF trajectory[N] = "neutral"
                        /\ trajectory[N - 1] \in distressed
                THEN " User appears to be stabilizing."
                ELSE IF N >= 3 /\ \A i \in first..N : trajectory[i] \in distressed
                THEN " User has been consistently distressed."
                ELSE ""
        IN  ret[1] = "Emotion trajectory: " \o shown \o "." \o remark

\* C32: after add_turn(session_id, ...), for every session_id, the empty
\* string included, get_session(session_id) returns a session whose last
\* turn is the turn appended, and a session that was stored under that ID
\* before the call has one turn more than it had.
C32_TurnLandsUnderItsId ==
    Called("add_turn") =>
        LET sid == ret[1].session_id
            found == get_session(sessions, sid)
            turns == found[1].turns
        IN  /\ found # None
            /\ turns # << >>
            /\ turns[Len(turns)].role = ret[1].arg[1]
            /\ turns[Len(turns)].emotion = ret[1].arg[2]
            /\ found[1] = ret[1].value
            /\ sid \in DOMAIN ret[1].before =>
                  Len(turns) = Len(ret[1].before[sid].turns) + 1

\* the value get_context_summary returned to the call
ContextSummarized ==
    call # None /\ call[1].fn = "get_context_summary" /\ ret # None

\* C36: the summary get_context_summary gives of a live session holds the
\* note that the user is feeling better exactly if the trajectory has two
\* entries or more, the last in {positive, neutral} and the one before in
\* {sad, anxious}; and it holds the crisis banner exactly if the crisis flag
\* of the session is true.
C36_SummaryNotes ==
    ContextSummarized =>
        LET trajectory == call[1].phrases
            N == Len(trajectory)
        IN  /\ Contains("feeling better", ret[1]) <=>
                  /\ N >= 2
                  /\ trajectory[N] \in {"positive", "neutral"}
                  /\ trajectory[N - 1] \in {"sad", "anxious"}
            /\ Contains("CRISIS FLAG", ret[1]) <=> call[1].arg = "crisis"
            /\ sessions[call[1].text].emotion_trajectory = trajectory
            /\ sessions[call[1].text].is_crisis = (call[1].arg = "crisis")

\* the summary of a flagged session whose trajectory ends anxious, neutral
\* has been returned with the note and the banner
C36_Witness ==
    /\ ContextSummarized
    /\ call[1].phrases = << "positive", "angry", "anxious", "neutral" >>
    /\ call[1].arg = "crisis"
    /\ Contains("Note: User appears to be feeling better than earlier.", ret[1])
    /\ Contains("CRISIS FLAG: Safety keywords were detected", ret[1])

\* the tag detect_emotion_sync returned to the call
EmotionDetected ==
    call # None /\ call[1].fn = "detect_emotion_sync" /\ ret # None

\* the lists, by their place in the order anxious, sad, angry, frustrated,
\* positive, of which a word occurs in the lowercased text
ListsOccurring(text) ==
    { k \in DOMAIN EmotionLists :
        \E i \in DOMAIN EmotionLists[k][2] :
            Contains(EmotionLists[k][2][i], lower(text)) }

\* C37: detect_emotion_sync is a strict priority cascade: it returns the tag
\* of the earliest list, in the order anxious, sad, angry, frustrated,
\* positive, of which a word occurs in the lowercased text, and neutral if
\* no word occurs or the text is empty or absent; a text made of words of
\* several lists gets a tag no later than the earliest of them.
C37_EmotionCascade ==
    EmotionDetected =>
        LET hit == ListsOccurring(call[1].text)
            first == CHOOSE k \in hit : \A j \in hit : k <= j
        IN  /\ ret[1] = IF hit = {} THEN "neutral" ELSE EmotionLists[first][1]
            /\ call[1].text = "" => ret[1] = "neutral"
            /\ call[1].origin = "wordless" => hit = {}
            /\ call[1].origin = "words" =>
                  /\ hit # {}
                  /\ \E k \in hit : EmotionLists[k][1] = call[1].arg
                  /\ \A k \in hit : EmotionLists[k][1] = call[1].arg => first <= k

\* a text in which a positive word comes before a sad word was tagged sad
C37_Witness ==
    /\ EmotionDetected
    /\ call[1].text = "PEACEFUL but dukhi"
    /\ call[1].phrases = << "dukhi", "peaceful" >>
    /\ ret[1] = "sad"

\* the invocation r takes the step: its position changes
Steps(r) == req[r].pc # "idle" /\ req'[r].pc # req[r].pc

\* C38: a step of a turn of process_message whose safety check did not
\* return CRISIS (the turn is SAFE or WARNING, its generation call returns
\* or raises) leaves the crisis flag of every session as it was, and a
\* session the step creates has the flag false; so among the steps of the
\* pipeline only those of a CRISIS turn change a crisis flag.
C38_OnlyCrisisTurnsChangeFlag ==
    [][\A r \in Reqs :
          (Steps(r) /\ ~Crisis(r)) =>
              \A sid \in DOMAIN sessions' :
                  IF sid \in DOMAIN sessions
                  THEN sessions'[sid].is_crisis = sessions[sid].is_crisis
                  ELSE ~sessions'[sid].is_crisis]_vars

\* a WARNING turn whose generation call raised has returned with the
\* fallback reply on a session whose crisis flag was true when the turn
\* started and is true after it
C38_Witness ==
    \E r \in Reqs :
        /\ Returned(r)
        /\ req[r].safety # None
        /\ req[r].safety[1].level = "warning"
        /\ req[r].llm_outcome = "raised"
        /\ req[r].session_before # None
        /\ req[r].session_before[1].is_crisis
        /\ req[r].session_after # None
        /\ req[r].session_after[1].is_crisis
        /\ Len(req[r].session_after[1].turns)
               = Len(req[r].session_before[1].turns) + 2

====
